---- MODULE Spec2Model ----
(***************************************************************************)
(* Ledger, deposit reconciliation and API-key store of the wallet service.  *)
(*                                                                         *)
(* The committed database (wallets, transactions) is shared by concurrent  *)
(* requests.  Every request runs in its own SQLAlchemy session: a query    *)
(* loads a row into the session (a snapshot the handler keeps computing    *)
(* on), db.commit() flushes the session's pending changes as UPDATE/INSERT *)
(* statements carrying absolute column values and commits them.  The       *)
(* engine is created without an isolation level (database.py:10-14), so    *)
(* statements of different requests interleave at statement granularity    *)
(* (read committed): one action of the model is one handler segment that   *)
(* ends with a database statement.                                         *)
(*                                                                         *)
(* Amounts are Float columns holding naira.  They are represented as       *)
(* integer counts of 1/LedgerScale naira; sums stand for the exact sums    *)
(* (binary rounding of float additions is not represented).                *)
(***************************************************************************)
EXTENDS Integers, Sequences, FiniteSets, TLC

\* ------------------------------------------------------------------ bounds
MaxRequests == 3
MaxRefs == 1
MaxKeyRequests == 4
MaxKeys == 7
MaxNow == 2

Procs == {"p1", "p2"}
Users == {"u1", "u2"}
Refs == 1..MaxRefs
DepositAmounts == {1000, 2500}
KoboAmounts == {100, 250}
TransferAmounts == {1000, 2500}

\* ----------------------------------------------------------- representation
LedgerScale == 1000

NoUser == "none"
NoRef == 0
NoWallet == [id |-> NoUser, user_id |-> NoUser, wallet_number |-> "", balance |-> 0,
             is_active |-> FALSE]

WalletNumbers == [u \in Users |-> IF u = "u1" THEN "4566678954356" ELSE "1029384756102"]
UnknownWalletNumber == "0000000000000"

PENDING == "pending"
SUCCESS == "success"
FAILED == "failed"
DEPOSIT == "deposit"
TRANSFER == "transfer"

PAYSTACK_SECRET_KEY == "sk_paystack"
SignerKeys == {PAYSTACK_SECRET_KEY, "sk_other"}
Events == {"charge.success", "transfer.success"}
ProcessorStatuses == {"success", "failed", "abandoned"}

VARIABLES wallets, transactions, pc, req, credits, started, users,
          api_keys, now, kpc, kreq, kstarted, applied, deactivated

vars == <<wallets, transactions, pc, req, credits, started, users,
          api_keys, now, kpc, kreq, kstarted, applied, deactivated>>

ledgervars == <<wallets, transactions, pc, req, credits, started, users>>

keyvars == <<api_keys, now, kpc, kreq, kstarted>>

\* ------------------------------------------------------------ pure helpers
kobo_to_naira(amount_in_kob) == (amount_in_kob * LedgerScale) \div 100

naira_to_kobo(amount_in_naira) == (amount_in_naira * 100) \div LedgerScale

\* round(v, 2): to the nearest hundredth of a naira
validate_amount(v) == ((v * 100 + LedgerScale \div 2) \div LedgerScale) * (LedgerScale \div 100)

HmacSha512(key, body) == <<"hmac_sha512", key, body>>

verify_webhook_signature_any(payload, signature) == TRUE

verify_webhook_signature(payload, signature) ==
    HmacSha512(PAYSTACK_SECRET_KEY, payload) = signature

\* ------------------------------------------------------------ queries
get_wallet_by_user_id(user_id) ==
    IF \E w \in DOMAIN wallets : wallets[w].user_id = user_id
    THEN wallets[CHOOSE w \in DOMAIN wallets : wallets[w].user_id = user_id]
    ELSE NoWallet

get_wallet_by_wallet_number(wallet_number) ==
    IF \E u \in DOMAIN wallets : wallets[u].wallet_number = wallet_number
    THEN wallets[CHOOSE u \in DOMAIN wallets : wallets[u].wallet_number = wallet_number]
    ELSE NoWallet

\* index of the row carrying the reference, 0 when there is none
get_transaction_by_reference(reference) ==
    IF \E i \in DOMAIN transactions : transactions[i].reference = reference
    THEN CHOOSE i \in DOMAIN transactions : transactions[i].reference = reference
    ELSE 0

Transaction(user_id, wallet_id, type, amount, status, reference, recipient_wallet_number) ==
    [user_id |-> user_id, wallet_id |-> wallet_id, type |-> type, amount |-> amount,
     status |-> status, reference |-> reference,
     recipient_wallet_number |-> recipient_wallet_number]

\* ------------------------------------------------------------ request state
IdleReq == [op |-> "none", tx |-> 0, ref |-> NoRef, amount |-> 0, wallet |-> NoUser,
            balance |-> 0, active |-> FALSE, wallet_number |-> "", recipient |-> NoUser,
            rbalance |-> 0, result |-> "none", okInput |-> FALSE, mismatch |-> FALSE,
            seen |-> 0, persist |-> "none", signer |-> "none", event |-> "none",
            processor |-> "none", paystack_status |-> "none"]

\* The response: what the caller is told (the session and what it loaded are gone)
Finish(p, r, result) ==
    /\ pc' = [pc EXCEPT ![p] = "done"]
    /\ req' = [req EXCEPT ![p] = [IdleReq EXCEPT !.op = r.op, !.ref = r.ref, !.tx = r.tx,
                                                 !.wallet = r.wallet,
                                                 !.amount = r.amount,
                                                 !.wallet_number = r.wallet_number,
                                                 !.okInput = r.okInput,
                                                 !.mismatch = r.mismatch,
                                                 !.signer = r.signer,
                                                 !.event = r.event,
                                                 !.processor = r.processor,
                                                 !.paystack_status = r.paystack_status,
                                                 !.result = result]]

Goto(p, r, label) ==
    /\ pc' = [pc EXCEPT ![p] = label]
    /\ req' = [req EXCEPT ![p] = r]

\* update_balance calls made on each wallet one after the other, and the balance
\* the first of them found
NoCalls == [u \in Users |-> [b0 |-> 0, log |-> <<>>]]

Init ==
    /\ wallets = [u \in Users |-> [id |-> u, user_id |-> u, wallet_number |-> WalletNumbers[u],
                                   balance |-> 0, is_active |-> TRUE]]
    /\ transactions = <<>>
    /\ pc = [p \in Procs |-> "idle"]
    /\ req = [p \in Procs |-> IdleReq]
    /\ credits = [r \in Refs |-> 0]
    /\ started = 0
    /\ users = Users
    /\ api_keys = <<>>
    /\ now = 0
    /\ kpc = [p \in Procs |-> "idle"]
    /\ kreq = [p \in Procs |-> [op |-> "none"]]
    /\ kstarted = 0
    /\ applied = NoCalls
    /\ deactivated = {}

\* ------------------------------------------------------------ initiate_deposit
\* POST /wallet/deposit: the wallet is looked up, the processor initialises the
\* payment under a freshly generated reference, the pending record is inserted.
\* The reference column is unique: a colliding insert raises and persists nothing.
reference_taken_never(reference) == FALSE

reference_taken(reference) ==
    reference # NoRef /\ get_transaction_by_reference(reference) # 0

initiate_deposit(user, amount, reference, processor_ok) ==
    LET wallet == get_wallet_by_user_id(user)
        amt == validate_amount(amount)
    IN  /\ wallet # NoWallet
        /\ transactions' =
             IF processor_ok /\ ~reference_taken(reference)
             THEN Append(transactions,
                         Transaction(user, wallet.id, DEPOSIT, amt, PENDING, reference, ""))
             ELSE transactions
        /\ UNCHANGED <<wallets, pc, req, credits, started>>

InitiateDeposit ==
    \E user \in Users, amount \in DepositAmounts, reference \in Refs, ok \in BOOLEAN :
        initiate_deposit(user, amount, reference, ok)

\* ------------------------------------------------------------ update_balance
\* WalletService.update_balance computes on the balance the session loaded and
\* commits the result as the row's new value.
update_balance_raises_never(balance, amount, operation) == FALSE

update_balance_raises(balance, amount, operation) ==
    operation = "subtract" /\ balance < amount

update_balance_swapped(balance, amount, operation) ==
    IF operation = "add" THEN balance - amount ELSE balance + amount

update_balance(balance, amount, operation) ==
    IF operation = "add" THEN balance + amount ELSE balance - amount

CommitBalance(wallet_id, balance) ==
    wallets' = [wallets EXCEPT ![wallet_id].balance = balance]

CommitStatus(tx, status) ==
    transactions' = [transactions EXCEPT ![tx].status = status]

\* The idempotency check and the amount check of both reconciliation paths
already_processed_never(status) == FALSE

already_processed(status) == status = SUCCESS

amount_mismatch_ignored(recorded, amount) == FALSE

amount_mismatch(recorded, amount) == recorded # amount

StartRequest ==
    /\ started < MaxRequests
    /\ started' = started + 1

\* ------------------------------------------------------------ paystack_webhook
\* Only charge.success events are processed; the others are acknowledged.
event_processed_any(event) == TRUE

event_processed(event) == event = "charge.success"

\* Request arrival up to the first query and the branches taken on its result.
paystack_webhook(p, key, json_ok, event, reference, amount_in_kobo, paystack_status) ==
    LET body == [json_ok |-> json_ok, event |-> event, reference |-> reference,
                 amount |-> amount_in_kobo, status |-> paystack_status]
        signature == HmacSha512(key, body)
        amount == kobo_to_naira(amount_in_kobo)
        tx == get_transaction_by_reference(reference)
        r == [IdleReq EXCEPT !.op = "webhook", !.ref = reference, !.signer = key,
                             !.event = IF key = PAYSTACK_SECRET_KEY /\ json_ok
                                       THEN event ELSE "none"]
    IN  /\ pc[p] = "idle"
        /\ StartRequest
        /\ UNCHANGED <<wallets, transactions, credits>>
        /\ IF ~verify_webhook_signature(body, signature)
           THEN Finish(p, r, "invalid_signature")
           ELSE IF ~json_ok THEN Finish(p, r, "invalid_json")
           ELSE IF ~event_processed(event) THEN Finish(p, r, "event_ignored")
           ELSE IF reference = NoRef THEN Finish(p, r, "missing_reference")
           ELSE IF tx = 0 THEN Finish(p, r, "transaction_not_found")
           ELSE LET row == transactions[tx]
                    r1 == [r EXCEPT !.tx = tx, !.amount = amount, !.wallet = row.user_id,
                                    !.okInput = (paystack_status = "success"
                                                 /\ row.amount = amount),
                                    !.mismatch = (row.status # SUCCESS /\ row.amount # amount),
                                    !.paystack_status = IF row.status = SUCCESS THEN "none"
                                                        ELSE paystack_status]
                IN  IF already_processed(row.status) THEN Finish(p, r1, "already_processed")
                    ELSE IF amount_mismatch(row.amount, amount)
                         THEN Goto(p, r1, "wh_commit_mismatch")
                    ELSE IF paystack_status = "success" THEN Goto(p, r1, "wh_select_wallet")
                    ELSE Goto(p, r1, "wh_commit_failed")

WebhookArrives(p) ==
    \E key \in SignerKeys, json_ok \in BOOLEAN, event \in Events,
       reference \in Refs \cup {NoRef}, kobo \in KoboAmounts, st \in ProcessorStatuses :
        paystack_webhook(p, key, json_ok, event, reference, kobo, st)

WebhookCommitMismatch(p) ==
    /\ pc[p] = "wh_commit_mismatch"
    /\ CommitStatus(req[p].tx, FAILED)
    /\ Finish(p, req[p], "amount_mismatch")
    /\ UNCHANGED <<wallets, credits, started>>

WebhookSelectWallet(p) ==
    LET wallet == get_wallet_by_user_id(req[p].wallet)
    IN  /\ pc[p] = "wh_select_wallet"
        /\ IF wallet = NoWallet
           THEN Finish(p, req[p], "wallet_not_found")
           ELSE Goto(p, [req[p] EXCEPT !.balance = wallet.balance, !.wallet = wallet.id],
                     "wh_credit")
        /\ UNCHANGED <<wallets, transactions, credits, started>>

WebhookCredit(p) ==
    /\ pc[p] = "wh_credit"
    /\ CommitBalance(req[p].wallet, update_balance(req[p].balance, req[p].amount, "add"))
    /\ credits' = [credits EXCEPT ![req[p].ref] = @ + 1]
    /\ Goto(p, req[p], "wh_flip")
    /\ UNCHANGED <<transactions, started>>

WebhookFlip(p) ==
    /\ pc[p] = "wh_flip"
    /\ CommitStatus(req[p].tx, SUCCESS)
    /\ Finish(p, req[p], "wallet_credited")
    /\ UNCHANGED <<wallets, credits, started>>

WebhookCommitFailed(p) ==
    /\ pc[p] = "wh_commit_failed"
    /\ CommitStatus(req[p].tx, FAILED)
    /\ Finish(p, req[p], "transaction_failed")
    /\ UNCHANGED <<wallets, credits, started>>

\* ------------------------------------------------------------ paystack_callback
\* Lookup of the reference, then the processor's synchronous verification.
paystack_callback(p, reference, verify_ok, paystack_status, amount_in_kobo) ==
    LET tx == get_transaction_by_reference(reference)
        amount == kobo_to_naira(amount_in_kobo)
        r == [IdleReq EXCEPT !.op = "callback", !.ref = reference]
    IN  /\ pc[p] = "idle"
        /\ StartRequest
        /\ UNCHANGED <<wallets, transactions, credits>>
        /\ IF tx = 0 THEN Finish(p, r, "page_transaction_not_found")
           ELSE LET row == transactions[tx]
                    r1 == [r EXCEPT !.tx = tx, !.amount = amount, !.wallet = row.user_id,
                                    !.okInput = (verify_ok /\ paystack_status = "success"
                                                 /\ row.amount = amount),
                                    !.mismatch = (verify_ok /\ row.status # SUCCESS
                                                  /\ row.amount # amount),
                                    !.processor = IF row.status = SUCCESS THEN "none"
                                               ELSE IF verify_ok THEN "ok" ELSE "failed",
                                    !.paystack_status =
                                        IF row.status # SUCCESS /\ verify_ok
                                        THEN paystack_status ELSE "none"]
                IN  IF already_processed(row.status) THEN Finish(p, r1, "page_success")
                    ELSE IF ~verify_ok THEN Finish(p, r1, "page_verification_error")
                    ELSE IF amount_mismatch(row.amount, amount)
                         THEN Goto(p, r1, "cb_commit_mismatch")
                    ELSE IF paystack_status = "success" THEN Goto(p, r1, "cb_select_wallet")
                    ELSE Goto(p, r1, "cb_commit_failed")

CallbackArrives(p) ==
    \E reference \in Refs, verify_ok \in BOOLEAN, st \in ProcessorStatuses,
       kobo \in KoboAmounts :
        paystack_callback(p, reference, verify_ok, st, kobo)

CallbackCommitMismatch(p) ==
    /\ pc[p] = "cb_commit_mismatch"
    /\ CommitStatus(req[p].tx, FAILED)
    /\ Finish(p, req[p], "page_amount_mismatch")
    /\ UNCHANGED <<wallets, credits, started>>

CallbackSelectWallet(p) ==
    LET wallet == get_wallet_by_user_id(req[p].wallet)
    IN  /\ pc[p] = "cb_select_wallet"
        /\ IF wallet = NoWallet
           THEN Finish(p, req[p], "page_wallet_not_found")
           ELSE Goto(p, [req[p] EXCEPT !.balance = wallet.balance, !.wallet = wallet.id],
                     "cb_credit")
        /\ UNCHANGED <<wallets, transactions, credits, started>>

CallbackCredit(p) ==
    /\ pc[p] = "cb_credit"
    /\ CommitBalance(req[p].wallet, update_balance(req[p].balance, req[p].amount, "add"))
    /\ credits' = [credits EXCEPT ![req[p].ref] = @ + 1]
    /\ Goto(p, req[p], "cb_flip")
    /\ UNCHANGED <<transactions, started>>

CallbackFlip(p) ==
    /\ pc[p] = "cb_flip"
    /\ CommitStatus(req[p].tx, SUCCESS)
    /\ Finish(p, req[p], "page_success")
    /\ UNCHANGED <<wallets, credits, started>>

CallbackCommitFailed(p) ==
    /\ pc[p] = "cb_commit_failed"
    /\ CommitStatus(req[p].tx, FAILED)
    /\ Finish(p, req[p], "page_payment_failed")
    /\ UNCHANGED <<wallets, credits, started>>

\* ------------------------------------------------------------ transfer_funds
\* The parameters of WalletService.create_transaction and the keywords the two
\* calls in transfer_funds pass: a call binds when every keyword is a parameter
\* and every parameter without a default is given, otherwise it raises TypeError.
CreateTransactionParams ==
    {"db", "user_id", "wallet_id", "transaction_type", "amount", "transaction_status",
     "reference", "recipient_wallet_number", "description"}

CreateTransactionRequired == {"db", "user_id", "wallet_id", "transaction_type", "amount"}

SenderTransactionKeywordsBound ==
    {"db", "user_id", "wallet_id", "transaction_type", "amount", "transaction_status",
     "recipient_wallet_number", "description"}

SenderTransactionKeywords ==
    {"db", "user_id", "wallet_id", "transaction_type", "amount", "status",
     "recipient_wallet_number", "description"}

RecipientTransactionKeywords ==
    {"db", "user_id", "wallet_id", "transaction_type", "amount", "transaction_status",
     "description"}

CallBinds(keywords) ==
    /\ keywords \subseteq CreateTransactionParams
    /\ CreateTransactionRequired \subseteq keywords

\* What can happen when create_transaction commits: the commit goes through, or
\* the database raises on the first or on the second record.
PersistOutcomes == {"ok", "fail_first", "fail_second"}

\* Sender lookup (the service is entered with the acting user).
transfer_funds(p, sender, recipient_wallet_number, amount) ==
    LET sender_wallet == get_wallet_by_user_id(sender)
        r == [IdleReq EXCEPT !.op = "transfer", !.wallet = sender, !.amount = amount,
                             !.wallet_number = recipient_wallet_number]
    IN  /\ pc[p] = "idle"
        /\ StartRequest
        /\ UNCHANGED <<wallets, transactions, credits>>
        /\ IF sender_wallet = NoWallet
           THEN Finish(p, r, "sender_wallet_not_found")
           ELSE Goto(p, [r EXCEPT !.balance = sender_wallet.balance,
                                  !.active = sender_wallet.is_active],
                     "tf_select_recipient")

TransferArrives(p) ==
    \E sender \in Users, amount \in TransferAmounts,
       number \in {WalletNumbers[u] : u \in Users} \cup {UnknownWalletNumber} :
        transfer_funds(p, sender, number, amount)

\* The two comparisons among the checks made before the try block.
is_self_transfer_never(sender_wallet_id, recipient_wallet_id) == FALSE

is_self_transfer(sender_wallet_id, recipient_wallet_id) ==
    sender_wallet_id = recipient_wallet_id

insufficient_balance_never(balance, amount) == FALSE

insufficient_balance_reversed(balance, amount) == balance > amount

insufficient_balance(balance, amount) == balance < amount

\* The checks made before the try block on the two wallets loaded, in the order
\* of the code: the detail of the first that fails, "ok" when none does.
transfer_checks_balance_first(r, recipient_wallet) ==
    IF recipient_wallet = NoWallet THEN "recipient_wallet_not_found"
    ELSE IF is_self_transfer(r.wallet, recipient_wallet.id) THEN "self_transfer"
    ELSE IF insufficient_balance(r.balance, r.amount) THEN "insufficient_balance"
    ELSE IF ~r.active THEN "sender_wallet_inactive"
    ELSE IF ~recipient_wallet.is_active THEN "recipient_wallet_inactive"
    ELSE "ok"

transfer_checks(r, recipient_wallet) ==
    IF recipient_wallet = NoWallet THEN "recipient_wallet_not_found"
    ELSE IF is_self_transfer(r.wallet, recipient_wallet.id) THEN "self_transfer"
    ELSE IF ~r.active THEN "sender_wallet_inactive"
    ELSE IF ~recipient_wallet.is_active THEN "recipient_wallet_inactive"
    ELSE IF insufficient_balance(r.balance, r.amount) THEN "insufficient_balance"
    ELSE "ok"

\* Recipient lookup and the checks made before the try block.
TransferSelectRecipient(p) ==
    LET r == req[p]
        recipient_wallet == get_wallet_by_wallet_number(r.wallet_number)
        error == transfer_checks(r, recipient_wallet)
    IN  /\ pc[p] = "tf_select_recipient"
        /\ UNCHANGED <<wallets, transactions, credits, started>>
        /\ IF error # "ok" THEN Finish(p, r, error)
           ELSE Goto(p, [r EXCEPT !.recipient = recipient_wallet.id,
                                  !.rbalance = recipient_wallet.balance], "tf_execute")

\* The try block: both balances are changed in the session, then the two
\* create_transaction calls (each commits what the session holds), the final
\* commit and the refresh; any exception rolls the session back and is
\* reported as a failed transfer.
transfer_execute(p, outcome) ==
    LET r == req[p]
        sender_transaction ==
            Transaction(r.wallet, r.wallet, TRANSFER, r.amount, SUCCESS, NoRef, r.wallet_number)
        recipient_transaction ==
            Transaction(r.recipient, r.recipient, DEPOSIT, r.amount, SUCCESS, NoRef, "")
        first_ok == CallBinds(SenderTransactionKeywords) /\ outcome # "fail_first"
        second_ok == first_ok /\ CallBinds(RecipientTransactionKeywords)
                     /\ outcome # "fail_second"
        moved == [wallets EXCEPT ![r.wallet].balance = r.balance - r.amount,
                                 ![r.recipient].balance = r.rbalance + r.amount]
    IN  /\ pc[p] = "tf_execute"
        /\ wallets' = IF first_ok THEN moved ELSE wallets
        /\ transactions' =
             IF second_ok
             THEN Append(Append(transactions, sender_transaction), recipient_transaction)
             ELSE IF first_ok THEN Append(transactions, sender_transaction)
             ELSE transactions
        /\ pc' = [pc EXCEPT ![p] = "done"]
        /\ req' = [req EXCEPT ![p] =
                     [IdleReq EXCEPT !.op = r.op, !.wallet = r.wallet,
                                     !.recipient = r.recipient, !.amount = r.amount,
                                     !.wallet_number = r.wallet_number,
                                     !.seen = r.balance, !.persist = outcome,
                                     !.balance = IF second_ok THEN wallets'[r.wallet].balance
                                                 ELSE 0,
                                     !.rbalance = IF second_ok
                                                  THEN wallets'[r.recipient].balance ELSE 0,
                                     !.result = IF second_ok THEN "transfer_success"
                                                ELSE "transfer_failed"]]
        /\ UNCHANGED <<credits, started>>

TransferExecute(p) ==
    \E outcome \in PersistOutcomes : transfer_execute(p, outcome)

\* ------------------------------------------------------------ request end
InFlight == {"wh_commit_mismatch", "wh_select_wallet", "wh_credit", "wh_flip",
             "wh_commit_failed", "cb_commit_mismatch", "cb_select_wallet", "cb_credit",
             "cb_flip", "cb_commit_failed", "tf_select_recipient", "tf_execute"}

Respond(p) ==
    /\ pc[p] = "done"
    /\ pc' = [pc EXCEPT ![p] = "idle"]
    /\ req' = [req EXCEPT ![p] = IdleReq]
    /\ UNCHANGED <<wallets, transactions, credits, started>>

Next ==
    \/ InitiateDeposit /\ UNCHANGED <<users, keyvars, applied, deactivated>>
    \/ \E p \in Procs : WebhookArrives(p) /\ UNCHANGED <<users, keyvars, applied, deactivated>>
    \/ \E p \in Procs : WebhookCommitMismatch(p) /\ UNCHANGED <<users, keyvars, applied, deactivated>>
    \/ \E p \in Procs : WebhookSelectWallet(p) /\ UNCHANGED <<users, keyvars, applied, deactivated>>
    \/ \E p \in Procs : WebhookCredit(p) /\ UNCHANGED <<users, keyvars, applied, deactivated>>
    \/ \E p \in Procs : WebhookFlip(p) /\ UNCHANGED <<users, keyvars, applied, deactivated>>
    \/ \E p \in Procs : WebhookCommitFailed(p) /\ UNCHANGED <<users, keyvars, applied, deactivated>>
    \/ \E p \in Procs : CallbackArrives(p) /\ UNCHANGED <<users, keyvars, applied, deactivated>>
    \/ \E p \in Procs : CallbackCommitMismatch(p) /\ UNCHANGED <<users, keyvars, applied, deactivated>>
    \/ \E p \in Procs : CallbackSelectWallet(p) /\ UNCHANGED <<users, keyvars, applied, deactivated>>
    \/ \E p \in Procs : CallbackCredit(p) /\ UNCHANGED <<users, keyvars, applied, deactivated>>
    \/ \E p \in Procs : CallbackFlip(p) /\ UNCHANGED <<users, keyvars, applied, deactivated>>
    \/ \E p \in Procs : CallbackCommitFailed(p) /\ UNCHANGED <<users, keyvars, applied, deactivated>>
    \/ \E p \in Procs : TransferArrives(p) /\ UNCHANGED <<users, keyvars, applied, deactivated>>
    \/ \E p \in Procs : TransferSelectRecipient(p) /\ UNCHANGED <<users, keyvars, applied, deactivated>>
    \/ \E p \in Procs : TransferExecute(p) /\ UNCHANGED <<users, keyvars, applied, deactivated>>
    \/ \E p \in Procs : Respond(p) /\ UNCHANGED <<users, keyvars, applied, deactivated>>

Spec == Init /\ [][Next]_vars

\* Calls that do not overlap: a request arrives only when no other is in flight.
Quiet(p) == \A q \in Procs \ {p} : pc[q] \notin InFlight

NextSeq ==
    \/ InitiateDeposit /\ UNCHANGED <<users, keyvars, applied, deactivated>>
    \/ \E p \in Procs : Quiet(p) /\ WebhookArrives(p) /\ UNCHANGED <<users, keyvars, applied, deactivated>>
    \/ \E p \in Procs : WebhookCommitMismatch(p) /\ UNCHANGED <<users, keyvars, applied, deactivated>>
    \/ \E p \in Procs : WebhookSelectWallet(p) /\ UNCHANGED <<users, keyvars, applied, deactivated>>
    \/ \E p \in Procs : WebhookCredit(p) /\ UNCHANGED <<users, keyvars, applied, deactivated>>
    \/ \E p \in Procs : WebhookFlip(p) /\ UNCHANGED <<users, keyvars, applied, deactivated>>
    \/ \E p \in Procs : WebhookCommitFailed(p) /\ UNCHANGED <<users, keyvars, applied, deactivated>>
    \/ \E p \in Procs : Quiet(p) /\ CallbackArrives(p) /\ UNCHANGED <<users, keyvars, applied, deactivated>>
    \/ \E p \in Procs : CallbackCommitMismatch(p) /\ UNCHANGED <<users, keyvars, applied, deactivated>>
    \/ \E p \in Procs : CallbackSelectWallet(p) /\ UNCHANGED <<users, keyvars, applied, deactivated>>
    \/ \E p \in Procs : CallbackCredit(p) /\ UNCHANGED <<users, keyvars, applied, deactivated>>
    \/ \E p \in Procs : CallbackFlip(p) /\ UNCHANGED <<users, keyvars, applied, deactivated>>
    \/ \E p \in Procs : CallbackCommitFailed(p) /\ UNCHANGED <<users, keyvars, applied, deactivated>>
    \/ \E p \in Procs : Quiet(p) /\ TransferArrives(p) /\ UNCHANGED <<users, keyvars, applied, deactivated>>
    \/ \E p \in Procs : TransferSelectRecipient(p) /\ UNCHANGED <<users, keyvars, applied, deactivated>>
    \/ \E p \in Procs : TransferExecute(p) /\ UNCHANGED <<users, keyvars, applied, deactivated>>
    \/ \E p \in Procs : Respond(p) /\ UNCHANGED <<users, keyvars, applied, deactivated>>

SpecSeq == Init /\ [][NextSeq]_vars

\* ==================================================================== API keys
\* The api_keys table and the four operations of APIKeyService.  Time is counted
\* in hours; every call reads the clock (datetime.utcnow()) when it runs.  A key
\* is the record of its columns; its id is its position in the table.
MaxActiveKeys == 5

NoKey == 0
NoTime == 0 - 1

AllowedPermissions == {"deposit", "transfer", "read"}
PermissionSets == {{"read"}, {"deposit", "transfer"}}
KeyNames == {"service"}
KeyCreators == {"u1"}
ExpirySpecs == { <<"1", "h">>, <<"1", "W">> }

\* str.upper() on the characters an expiry string is made of
upper(c) ==
    CASE c = "h" -> "H" [] c = "d" -> "D" [] c = "m" -> "M" [] c = "y" -> "Y"
      [] c = "w" -> "W" [] c = "x" -> "X" [] OTHER -> c

DigitChars == <<"0", "1", "2", "3", "4", "5", "6", "7", "8", "9">>

IsDigit(c) == \E d \in DOMAIN DigitChars : DigitChars[d] = c

DigitValue(c) == (CHOOSE d \in DOMAIN DigitChars : DigitChars[d] = c) - 1

RECURSIVE DigitsValue(_)
DigitsValue(s) ==
    IF s = <<>> THEN 0
    ELSE 10 * DigitsValue(SubSeq(s, 1, Len(s) - 1)) + DigitValue(s[Len(s)])

\* int(value): an optional sign and decimal digits, ValueError otherwise
int(value) ==
    LET signed == value # <<>> /\ value[1] \in {"-", "+"}
        digits == IF signed THEN Tail(value) ELSE value
    IN  IF digits # <<>> /\ \A i \in DOMAIN digits : IsDigit(digits[i])
        THEN [ok |-> TRUE,
              value |-> IF signed /\ value[1] = "-" THEN 0 - DigitsValue(digits)
                        ELSE DigitsValue(digits)]
        ELSE [ok |-> FALSE, value |-> 0]

HoursPerUnit(unit) ==
    CASE unit = "H" -> 1 [] unit = "D" -> 24 [] unit = "M" -> 24 * 30
      [] unit = "Y" -> 24 * 365

\* APIKey.parse_expiry at clock t: ok is FALSE where the code raises ValueError
parse_expiry(expiry_str, t) ==
    LET s == [i \in DOMAIN expiry_str |-> upper(expiry_str[i])]
    IN  IF Len(s) < 2 THEN [ok |-> FALSE, at |-> 0]
        ELSE LET value == int(SubSeq(s, 1, Len(s) - 1))
                 unit == s[Len(s)]
             IN  IF ~value.ok THEN [ok |-> FALSE, at |-> 0]
                 ELSE IF unit \in {"H", "D", "M", "Y"}
                      THEN [ok |-> TRUE, at |-> t + value.value * HoursPerUnit(unit)]
                 ELSE [ok |-> FALSE, at |-> 0]

\* the secret of the n-th key generated (secrets.token_hex: fresh every time)
generate_api_key(n) == <<"sk_live_", n>>

UnknownApiKey == <<"sk_live_", NoKey>>

hash_api_key_plain(api_key) == api_key

hash_api_key(api_key) == <<"sha256", api_key>>

APIKey(user_id, name, key_prefix, key_hash, permissions, expires_at) ==
    [user_id |-> user_id, name |-> name, key_prefix |-> key_prefix, key_hash |-> key_hash,
     permissions |-> permissions, expires_at |-> expires_at,
     is_active |-> TRUE, is_revoked |-> FALSE, last_used_at |-> NoTime]

is_expired_always(key, t) == TRUE

is_expired_never(key, t) == FALSE

is_expired(key, t) == t > key.expires_at

key_disabled_never(key) == FALSE

key_disabled(key) == key.is_revoked \/ ~key.is_active

get_active_key_count(user_id, t) ==
    Cardinality({i \in DOMAIN api_keys :
                   /\ api_keys[i].user_id = user_id
                   /\ api_keys[i].is_revoked = FALSE
                   /\ api_keys[i].expires_at > t})

key_limit_reached_above(active_count) == active_count > MaxActiveKeys

key_limit_reached(active_count) == active_count >= MaxActiveKeys

\* id of the key with that id owned by that user, NoKey when there is none
get_api_key_by_id_any_owner(key_id, user_id) ==
    IF key_id \in DOMAIN api_keys THEN key_id ELSE NoKey

get_api_key_by_id(key_id, user_id) ==
    IF key_id \in DOMAIN api_keys /\ api_keys[key_id].user_id = user_id
    THEN key_id ELSE NoKey

\* id of the key stored under that hash, NoKey when there is none
get_api_key_by_hash(key_hash) ==
    IF \E i \in DOMAIN api_keys : api_keys[i].key_hash = key_hash
    THEN CHOOSE i \in DOMAIN api_keys : api_keys[i].key_hash = key_hash
    ELSE NoKey

IdleKeyReq == [op |-> "none"]

\* The response body: the sequence of the objects it carries, empty for an error
\* or a plain message.
NoResponse == <<>>

KeyFinish(p, r, result) ==
    /\ kpc' = [kpc EXCEPT ![p] = "done"]
    /\ kreq' = [kreq EXCEPT ![p] = [op |-> r.op, user |-> r.user, key |-> r.key,
                                    plain |-> r.plain, result |-> result,
                                    response |-> IF "response" \in DOMAIN r
                                                 THEN r.response ELSE NoResponse]]

KeyGoto(p, r, label) ==
    /\ kpc' = [kpc EXCEPT ![p] = label]
    /\ kreq' = [kreq EXCEPT ![p] = r]

StartKeyRequest ==
    /\ kstarted < MaxKeyRequests
    /\ kstarted' = kstarted + 1

\* calls that are past their checks and about to insert a key
Inserting == Cardinality({q \in Procs : kpc[q] \in {"ck_commit", "ro_count", "ro_commit"}})

\* The first user already holds one key less than the limit: the state after
\* that many create_api_key calls with expiry "1D" at hour 0.  These keys are
\* alike, so calls that name a key name the last of them or a later one, or an
\* id that is not in the table.
SeededKeys == MaxActiveKeys - 1

TargetKeyIds == SeededKeys..(Len(api_keys) + 1)

SeededKey(n) ==
    APIKey("u1", "service", generate_api_key(n)[1], hash_api_key(generate_api_key(n)),
           {"read"}, parse_expiry(<<"1", "D">>, 0).at)

InitKeys ==
    /\ wallets = [u \in Users |-> [id |-> u, user_id |-> u, wallet_number |-> WalletNumbers[u],
                                   balance |-> 0, is_active |-> TRUE]]
    /\ transactions = <<>>
    /\ pc = [p \in Procs |-> "idle"]
    /\ req = [p \in Procs |-> IdleReq]
    /\ credits = [r \in Refs |-> 0]
    /\ started = 0
    /\ users = Users
    /\ api_keys = [i \in 1..SeededKeys |-> SeededKey(i)]
    /\ now = 0
    /\ kpc = [p \in Procs |-> "idle"]
    /\ kreq = [p \in Procs |-> IdleKeyReq]
    /\ kstarted = 0
    /\ applied = NoCalls
    /\ deactivated = {}

\* ------------------------------------------------------------ create_api_key
\* The count query and the limit check.
create_api_key(p, user, name, permissions, expiry) ==
    LET active_count == get_active_key_count(user, now)
        r == [op |-> "create", user |-> user, key |-> NoKey, plain |-> UnknownApiKey, name |-> name,
              permissions |-> permissions, expiry |-> expiry]
    IN  /\ kpc[p] = "idle"
        /\ StartKeyRequest
        /\ Len(api_keys) + Inserting < MaxKeys
        /\ UNCHANGED <<api_keys, now>>
        /\ IF key_limit_reached(active_count)
           THEN KeyFinish(p, r, "key_limit")
           ELSE KeyGoto(p, r, "ck_commit")

CreateArrives(p) ==
    \E user \in KeyCreators, name \in KeyNames, permissions \in PermissionSets,
       expiry \in ExpirySpecs :
        create_api_key(p, user, name, permissions, expiry)

\* POST /keys/create answers with the plaintext and the new key's metadata.
APIKeyCreateResponse(plain_key, api_key_obj) ==
    [api_key |-> plain_key, expires_at |-> api_key_obj.expires_at,
     name |-> api_key_obj.name, permissions |-> api_key_obj.permissions]

\* Key generation, parse_expiry, and the insert with its commit.
CreateCommit(p) ==
    LET r == kreq[p]
        plain_key == generate_api_key(Len(api_keys) + 1)
        expires_at == parse_expiry(r.expiry, now)
        api_key == APIKey(r.user, r.name, plain_key[1], hash_api_key(plain_key),
                          r.permissions, expires_at.at)
    IN  /\ kpc[p] = "ck_commit"
        /\ UNCHANGED <<now, kstarted>>
        /\ IF ~expires_at.ok
           THEN /\ UNCHANGED api_keys
                /\ KeyFinish(p, r, "invalid_expiry")
           ELSE /\ api_keys' = Append(api_keys, api_key)
                /\ KeyFinish(p, [r EXCEPT !.key = Len(api_keys) + 1]
                                 @@ [response |-> <<APIKeyCreateResponse(plain_key, api_key)>>],
                             "key_created")

\* ------------------------------------------------------------ verify_api_key
\* The lookup by hash and the three checks.
verify_api_key(p, api_key) ==
    LET db_key == get_api_key_by_hash(hash_api_key(api_key))
        r == [op |-> "verify", user |-> NoUser, key |-> db_key, plain |-> api_key]
    IN  /\ kpc[p] = "idle"
        /\ StartKeyRequest
        /\ UNCHANGED <<api_keys, now>>
        /\ IF db_key = NoKey THEN KeyFinish(p, r, "not_found")
           ELSE IF key_disabled(api_keys[db_key]) THEN KeyFinish(p, r, "not_found")
           ELSE IF is_expired(api_keys[db_key], now) THEN KeyFinish(p, r, "not_found")
           ELSE KeyGoto(p, [r EXCEPT !.user = api_keys[db_key].user_id], "vk_stamp")

VerifyArrives(p) ==
    \E api_key \in {generate_api_key(i) : i \in TargetKeyIds \cap DOMAIN api_keys}
                     \cup {UnknownApiKey} :
        verify_api_key(p, api_key)

\* last_used_at is the only column the session changed: it alone is written.
VerifyStamp(p) ==
    /\ kpc[p] = "vk_stamp"
    /\ api_keys' = [api_keys EXCEPT ![kreq[p].key].last_used_at = now]
    /\ KeyFinish(p, kreq[p], "verified")
    /\ UNCHANGED <<now, kstarted>>

\* ------------------------------------------------------------ revoke_api_key
revoke_api_key(p, key_id, user_id) ==
    LET api_key == get_api_key_by_id(key_id, user_id)
        r == [op |-> "revoke", user |-> user_id, key |-> key_id, plain |-> UnknownApiKey]
    IN  /\ kpc[p] = "idle"
        /\ StartKeyRequest
        /\ UNCHANGED <<api_keys, now>>
        /\ IF api_key = NoKey
           THEN KeyFinish(p, r, "key_not_found")
           ELSE KeyGoto(p, r, "rk_commit")

RevokeArrives(p) ==
    \E key_id \in TargetKeyIds, user_id \in Users :
        revoke_api_key(p, key_id, user_id)

RevokeCommit(p) ==
    /\ kpc[p] = "rk_commit"
    /\ api_keys' = [api_keys EXCEPT ![kreq[p].key].is_revoked = TRUE,
                                    ![kreq[p].key].is_active = FALSE]
    /\ KeyFinish(p, kreq[p], "revoked")
    /\ UNCHANGED <<now, kstarted>>

\* ------------------------------------------------------------ rollover_api_key
\* What the session holds after the two assignments on old_key, and what is left
\* of it when the call raises: the session is closed without a commit.
PendingRevocation(old_key_id) ==
    [api_keys EXCEPT ![old_key_id].is_revoked = TRUE, ![old_key_id].is_active = FALSE]

session_flushed(committed, pending) == pending

session_closed(committed, pending) == committed

\* The arguments rollover_api_key hands to create_api_key.
rollover_arguments_default(old_name, old_permissions, new_expiry) ==
    [name |-> old_name, permissions |-> AllowedPermissions, expiry |-> new_expiry]

rollover_arguments(old_name, old_permissions, new_expiry) ==
    [name |-> old_name, permissions |-> old_permissions, expiry |-> new_expiry]

\* The lookup of the old key and the expiry check.
rollover_api_key(p, expired_key_id, user, new_expiry) ==
    LET old_key == get_api_key_by_id(expired_key_id, user)
        r == [op |-> "rollover", user |-> user, key |-> expired_key_id, plain |-> UnknownApiKey]
    IN  /\ kpc[p] = "idle"
        /\ StartKeyRequest
        /\ Len(api_keys) + Inserting < MaxKeys
        /\ UNCHANGED <<api_keys, now>>
        /\ IF old_key = NoKey THEN KeyFinish(p, r, "key_not_found")
           ELSE IF ~is_expired(api_keys[old_key], now) THEN KeyFinish(p, r, "not_expired")
           ELSE KeyGoto(p, r @@ rollover_arguments(api_keys[old_key].name,
                                                   api_keys[old_key].permissions,
                                                   new_expiry),
                        "ro_count")

RolloverArrives(p) ==
    \E key_id \in TargetKeyIds, user \in Users, new_expiry \in ExpirySpecs :
        rollover_api_key(p, key_id, user, new_expiry)

\* create_api_key inside the rollover: the count query and the limit check.
RolloverCount(p) ==
    LET r == kreq[p]
        active_count == get_active_key_count(r.user, now)
    IN  /\ kpc[p] = "ro_count"
        /\ UNCHANGED <<now, kstarted>>
        /\ IF key_limit_reached(active_count)
           THEN /\ api_keys' = session_closed(api_keys, PendingRevocation(r.key))
                /\ KeyFinish(p, r, "key_limit")
           ELSE /\ UNCHANGED api_keys
                /\ KeyGoto(p, r, "ro_commit")

\* POST /keys/rollover answers with the plaintext of the new key, its metadata
\* and the id of the old key.
APIKeyRolloverResponse(plain_key, new_key, expired_key_id) ==
    [api_key |-> plain_key, expires_at |-> new_key.expires_at, name |-> new_key.name,
     permissions |-> new_key.permissions, old_key_id |-> expired_key_id]

\* create_api_key inside the rollover: parse_expiry, then the commit that carries
\* the revocation of the old key and the insert of the new one.
RolloverCommit(p) ==
    LET r == kreq[p]
        plain_key == generate_api_key(Len(api_keys) + 1)
        expires_at == parse_expiry(r.expiry, now)
        api_key == APIKey(r.user, r.name, plain_key[1], hash_api_key(plain_key),
                          r.permissions, expires_at.at)
    IN  /\ kpc[p] = "ro_commit"
        /\ UNCHANGED <<now, kstarted>>
        /\ IF ~expires_at.ok
           THEN /\ api_keys' = session_closed(api_keys, PendingRevocation(r.key))
                /\ KeyFinish(p, r, "invalid_expiry")
           ELSE /\ api_keys' = Append(PendingRevocation(r.key), api_key)
                /\ KeyFinish(p, r @@ [response |-> <<APIKeyRolloverResponse(plain_key, api_key,
                                                                            r.key)>>],
                             "rolled_over")

\* ------------------------------------------------------------ list_api_keys
APIKeyListItem(id, key) ==
    [id |-> id, name |-> key.name, key_prefix |-> key.key_prefix,
     permissions |-> key.permissions, expires_at |-> key.expires_at,
     is_active |-> key.is_active, is_revoked |-> key.is_revoked,
     last_used_at |-> key.last_used_at]

\* the user's keys, newest first
get_user_api_keys(user_id) ==
    LET ids == {i \in DOMAIN api_keys : api_keys[i].user_id = user_id}
    IN  [j \in 1..Cardinality(ids) |->
            CHOOSE i \in ids : Cardinality({k \in ids : k > i}) = j - 1]

list_api_keys(p, user) ==
    LET keys == get_user_api_keys(user)
        r == [op |-> "list", user |-> user, key |-> NoKey, plain |-> UnknownApiKey,
              response |-> [j \in DOMAIN keys |-> APIKeyListItem(keys[j], api_keys[keys[j]])]]
    IN  /\ kpc[p] = "idle"
        /\ StartKeyRequest
        /\ UNCHANGED <<api_keys, now>>
        /\ KeyFinish(p, r, "listed")

ListArrives(p) ==
    \E user \in Users : list_api_keys(p, user)

\* ------------------------------------------------------------ clock, request end
Tick ==
    /\ now < MaxNow
    /\ now' = now + 1
    /\ UNCHANGED <<api_keys, kpc, kreq, kstarted>>

KeyRespond(p) ==
    /\ kpc[p] = "done"
    /\ kpc' = [kpc EXCEPT ![p] = "idle"]
    /\ kreq' = [kreq EXCEPT ![p] = IdleKeyReq]
    /\ UNCHANGED <<api_keys, now, kstarted>>

NextKeys ==
    \/ \E p \in Procs : CreateArrives(p) /\ UNCHANGED <<ledgervars, applied, deactivated>>
    \/ \E p \in Procs : CreateCommit(p) /\ UNCHANGED <<ledgervars, applied, deactivated>>
    \/ \E p \in Procs : VerifyArrives(p) /\ UNCHANGED <<ledgervars, applied, deactivated>>
    \/ \E p \in Procs : VerifyStamp(p) /\ UNCHANGED <<ledgervars, applied, deactivated>>
    \/ \E p \in Procs : RevokeArrives(p) /\ UNCHANGED <<ledgervars, applied, deactivated>>
    \/ \E p \in Procs : RevokeCommit(p) /\ UNCHANGED <<ledgervars, applied, deactivated>>
    \/ \E p \in Procs : RolloverArrives(p) /\ UNCHANGED <<ledgervars, applied, deactivated>>
    \/ \E p \in Procs : RolloverCount(p) /\ UNCHANGED <<ledgervars, applied, deactivated>>
    \/ \E p \in Procs : RolloverCommit(p) /\ UNCHANGED <<ledgervars, applied, deactivated>>
    \/ \E p \in Procs : ListArrives(p) /\ UNCHANGED <<ledgervars, applied, deactivated>>
    \/ \E p \in Procs : KeyRespond(p) /\ UNCHANGED <<ledgervars, applied, deactivated>>
    \/ Tick /\ UNCHANGED <<ledgervars, applied, deactivated>>

SpecKeys == InitKeys /\ [][NextKeys]_vars

\* ================================================================= access gate
\* The permission gate in front of the wallet endpoints, over the key table above.  A request carries the user its bearer token names
\* (NoUser when the header is absent or the token does not decode to a user) and
\* the x-api-key header (NoHeader when absent).
GatedOperations == {"get_wallet_balance", "initiate_deposit", "check_deposit_status",
                    "get_transaction_history", "transfer_funds"}

\* the permission each wallet endpoint hands to require_permission
RequiredPermission(operation) ==
    CASE operation = "initiate_deposit" -> "deposit"
      [] operation = "transfer_funds" -> "transfer"
      [] OTHER -> "read"

NoHeader == <<>>

\* what get_current_user_or_api_key returns when it falls off its end
NoAuthData == [user |-> NoUser, api_key |-> NoKey]

has_permission_any(key, permission) == TRUE

has_permission(key, permission) == permission \in key.permissions

\* The checker require_permission(permission) returns, applied to what
\* get_current_user_or_api_key resolved: unpacking None raises.
permission_checker(auth_data, permission) ==
    IF auth_data = NoAuthData THEN "server_error"
    ELSE IF auth_data.api_key = NoKey THEN "operation_ran"
    ELSE IF ~has_permission(api_keys[auth_data.api_key], permission)
         THEN "permission_denied"
    ELSE "operation_ran"

GateFinish(p, r, result) ==
    /\ kpc' = [kpc EXCEPT ![p] = "done"]
    /\ kreq' = [kreq EXCEPT ![p] = [op |-> r.op, user |-> r.user, key |-> r.key,
                                    plain |-> r.plain, result |-> result,
                                    response |-> NoResponse,
                                    permission |-> r.permission, session |-> r.session]]

\* get_current_user_or_api_key up to the lookup of the key: the bearer token is
\* tried first, then the key header.
get_current_user_or_api_key(p, session_user, x_api_key, operation) ==
    LET db_key == get_api_key_by_hash(hash_api_key(x_api_key))
        permission == RequiredPermission(operation)
        token_user == IF session_user \in deactivated THEN NoUser ELSE session_user
        r == [op |-> "gate", user |-> session_user, key |-> NoKey, plain |-> x_api_key,
              permission |-> permission, session |-> token_user # NoUser]
    IN  /\ kpc[p] = "idle"
        /\ StartKeyRequest
        /\ UNCHANGED <<api_keys, now>>
        /\ IF token_user # NoUser
           THEN GateFinish(p, r, permission_checker([user |-> session_user, api_key |-> NoKey],
                                                    permission))
           ELSE IF x_api_key = NoHeader
           THEN GateFinish(p, r, permission_checker(NoAuthData, permission))
           ELSE IF db_key = NoKey THEN GateFinish(p, r, "unauthenticated")
           ELSE IF key_disabled(api_keys[db_key]) THEN GateFinish(p, r, "unauthenticated")
           ELSE IF is_expired(api_keys[db_key], now) THEN GateFinish(p, r, "unauthenticated")
           ELSE KeyGoto(p, [r EXCEPT !.key = db_key, !.user = api_keys[db_key].user_id],
                        "gk_stamp")

GateArrives(p) ==
    \E session_user \in KeyCreators \cup {NoUser}, operation \in GatedOperations,
       x_api_key \in {generate_api_key(i) : i \in TargetKeyIds \cap DOMAIN api_keys}
                       \cup {UnknownApiKey, NoHeader} :
        get_current_user_or_api_key(p, session_user, x_api_key, operation)

\* verify_api_key's stamp and commit, then the lookup of the key's user, which
\* must be active, then the checker on the key returned
GateStamp(p) ==
    LET r == kreq[p]
    IN  /\ kpc[p] = "gk_stamp"
        /\ api_keys' = [api_keys EXCEPT ![r.key].last_used_at = now]
        /\ IF r.user \in deactivated THEN GateFinish(p, r, "unauthenticated")
           ELSE GateFinish(p, r, permission_checker([user |-> r.user, api_key |-> r.key],
                                                    r.permission))
        /\ UNCHANGED <<now, kstarted>>

NextAccess ==
    \/ \E p \in Procs : CreateArrives(p) /\ UNCHANGED <<ledgervars, applied, deactivated>>
    \/ \E p \in Procs : CreateCommit(p) /\ UNCHANGED <<ledgervars, applied, deactivated>>
    \/ \E p \in Procs : RevokeArrives(p) /\ UNCHANGED <<ledgervars, applied, deactivated>>
    \/ \E p \in Procs : RevokeCommit(p) /\ UNCHANGED <<ledgervars, applied, deactivated>>
    \/ \E p \in Procs : GateArrives(p) /\ UNCHANGED <<ledgervars, applied, deactivated>>
    \/ \E p \in Procs : GateStamp(p) /\ UNCHANGED <<ledgervars, applied, deactivated>>
    \/ \E p \in Procs : KeyRespond(p) /\ UNCHANGED <<ledgervars, applied, deactivated>>
    \/ Tick /\ UNCHANGED <<ledgervars, applied, deactivated>>

SpecAccess == InitKeys /\ [][NextAccess]_vars

\* ==================================================================== accounts
\* Registration (get_or_create_user, create_user, create_wallet_for_user), the
\* deposit endpoint statement by statement, and the deposit status query, over
\* the users, wallets and transactions tables.  A stored wallet is found under
\* its id; the wallets made here take their ids from WalletIds.
max_attempts == 10

Registrants == {"u3"}
WalletIds == {"w1", "w2"}
\* values Wallet.generate_wallet_number returns here: a number in use and two free
WalletNumberPool == {WalletNumbers["u1"], "7700000000001", "7700000000002"}

Wallet(id, user_id, wallet_number) ==
    [id |-> id, user_id |-> user_id, wallet_number |-> wallet_number, balance |-> 0,
     is_active |-> TRUE]

\* The unique constraints of the wallets table: IntegrityError on commit.
wallet_integrity_error_number_only(user_id, wallet_number) ==
    \E w \in DOMAIN wallets : wallets[w].wallet_number = wallet_number

wallet_integrity_error(user_id, wallet_number) ==
    \E w \in DOMAIN wallets : \/ wallets[w].user_id = user_id
                              \/ wallets[w].wallet_number = wallet_number

\* ------------------------------------------------------------ get_or_create_user
\* The lookup by Google id.
get_or_create_user(p, user) ==
    LET r == [IdleReq EXCEPT !.op = "register", !.wallet = user]
               @@ [attempt |-> 0, wallet_id |-> NoUser]
    IN  /\ pc[p] = "idle"
        /\ StartRequest
        /\ UNCHANGED <<wallets, transactions, credits, users>>
        /\ IF user \in users THEN Finish(p, r, "user_returned")
           ELSE Goto(p, r, "cu_commit")

RegisterArrives(p) ==
    \E user \in Registrants : get_or_create_user(p, user)

\* create_user: the insert of the user and its commit; google_id is unique.
create_user(p) ==
    LET r == req[p]
    IN  /\ pc[p] = "cu_commit"
        /\ UNCHANGED <<wallets, transactions, credits, started>>
        /\ IF r.wallet \in users
           THEN /\ UNCHANGED users
                /\ Finish(p, r, "user_conflict")
           ELSE /\ users' = users \cup {r.wallet}
                /\ Goto(p, r, "cw_insert")

\* ------------------------------------------------------------ create_wallet_for_user
\* the test made after the rollback: was this the last pass of the loop
last_attempt_late(attempt) == attempt = max_attempts

last_attempt(attempt) == attempt = max_attempts - 1

\* One pass of the loop: a number is generated, the wallet inserted and committed;
\* on IntegrityError the session is rolled back and the loop goes on, or gives up
\* after the last attempt.
create_wallet_for_user(p, wallet_number) ==
    LET r == [req[p] EXCEPT !.wallet_number = wallet_number]
        id == CHOOSE w \in WalletIds \ DOMAIN wallets : TRUE
    IN  /\ pc[p] = "cw_insert"
        /\ WalletIds \ DOMAIN wallets # {}
        /\ UNCHANGED <<transactions, credits, started, users>>
        /\ IF wallet_integrity_error(r.wallet, wallet_number)
           THEN /\ UNCHANGED wallets
                /\ IF last_attempt(r.attempt)
                   THEN Finish(p, r, "wallet_number_exhausted")
                   ELSE Goto(p, [r EXCEPT !.attempt = @ + 1], "cw_insert")
           ELSE /\ wallets' = (id :> Wallet(id, r.wallet, wallet_number)) @@ wallets
                /\ IF r.op = "register" THEN Finish(p, r, "user_created")
                   ELSE Goto(p, [r EXCEPT !.wallet_id = id], "dp_initialize")

CreateWalletAttempt(p) ==
    \E wallet_number \in WalletNumberPool : create_wallet_for_user(p, wallet_number)

\* ------------------------------------------------------------ deposit endpoint
\* POST /wallet/deposit, first statement: get_or_create_wallet's lookup.
get_or_create_wallet(p, user, amount) ==
    LET wallet == get_wallet_by_user_id(user)
        r == [IdleReq EXCEPT !.op = "deposit", !.wallet = user,
                             !.amount = validate_amount(amount)]
               @@ [attempt |-> 0, wallet_id |-> wallet.id]
    IN  /\ pc[p] = "idle"
        /\ StartRequest
        /\ user \in users
        /\ UNCHANGED <<wallets, transactions, credits, users>>
        /\ IF wallet = NoWallet THEN Goto(p, r, "cw_insert")
           ELSE Goto(p, r, "dp_initialize")

DepositArrives(p) ==
    \E user \in Users \cup Registrants, amount \in DepositAmounts :
        get_or_create_wallet(p, user, amount)

\* PaystackService.initialize_transaction: the reference it generated, or the
\* HTTPException it raises when the request or the processor's answer fails.
initialize_transaction_unchecked(processor_ok, reference) ==
    [ok |-> TRUE, reference |-> reference]

initialize_transaction(processor_ok, reference) ==
    [ok |-> processor_ok, reference |-> IF processor_ok THEN reference ELSE NoRef]

DepositInitialize(p) ==
    \E processor_ok \in BOOLEAN, reference \in Refs :
        LET r == [req[p] EXCEPT !.processor = IF processor_ok THEN "ok" ELSE "failed"]
            initialized == initialize_transaction(processor_ok, reference)
        IN  /\ pc[p] = "dp_initialize"
            /\ UNCHANGED <<wallets, transactions, credits, started, users>>
            /\ IF ~initialized.ok THEN Finish(p, r, "processor_error")
               ELSE Goto(p, [r EXCEPT !.ref = initialized.reference], "dp_record")

\* WalletService.create_transaction: the insert of the pending record and its
\* commit; the reference column is unique.
DepositRecord(p) ==
    LET r == req[p]
    IN  /\ pc[p] = "dp_record"
        /\ UNCHANGED <<wallets, credits, started, users>>
        /\ IF reference_taken(r.ref)
           THEN /\ UNCHANGED transactions
                /\ Finish(p, r, "reference_conflict")
           ELSE /\ transactions' =
                     Append(transactions,
                            Transaction(r.wallet, r.wallet_id, DEPOSIT, r.amount, PENDING,
                                        r.ref, ""))
                /\ Finish(p, [r EXCEPT !.tx = Len(transactions) + 1], "deposit_initiated")

\* ------------------------------------------------------------ check_deposit_status
StatusFinish(p, r, result, response) ==
    /\ pc' = [pc EXCEPT ![p] = "done"]
    /\ req' = [req EXCEPT ![p] = [IdleReq EXCEPT !.op = r.op, !.ref = r.ref, !.tx = r.tx,
                                                 !.wallet = r.wallet, !.result = result]
                                   @@ [response |-> response]]

DepositStatusResponse(transaction) ==
    [reference |-> transaction.reference, status |-> transaction.status,
     amount |-> transaction.amount]

not_owner_never(transaction_user_id, user_id) == FALSE

not_owner(transaction_user_id, user_id) == transaction_user_id # user_id

\* a status query that settles the pending deposit it finds
check_deposit_status_settling(p, user, reference) ==
    LET tx == get_transaction_by_reference(reference)
        r == [IdleReq EXCEPT !.op = "status", !.wallet = user, !.ref = reference, !.tx = tx]
    IN  /\ pc[p] = "idle"
        /\ StartRequest
        /\ user \in users
        /\ UNCHANGED <<wallets, credits, users>>
        /\ IF tx = 0
           THEN UNCHANGED transactions /\ StatusFinish(p, r, "status_not_found", NoResponse)
           ELSE IF not_owner(transactions[tx].user_id, user)
           THEN UNCHANGED transactions /\ StatusFinish(p, r, "status_forbidden", NoResponse)
           ELSE /\ CommitStatus(tx, SUCCESS)
                /\ StatusFinish(p, r, "status_returned",
                                <<DepositStatusResponse(transactions[tx])>>)

\* GET /wallet/deposit/{reference}/status: one query, no write
check_deposit_status(p, user, reference) ==
    LET tx == get_transaction_by_reference(reference)
        r == [IdleReq EXCEPT !.op = "status", !.wallet = user, !.ref = reference, !.tx = tx]
    IN  /\ pc[p] = "idle"
        /\ StartRequest
        /\ user \in users
        /\ UNCHANGED <<wallets, transactions, credits, users>>
        /\ IF tx = 0 THEN StatusFinish(p, r, "status_not_found", NoResponse)
           ELSE IF not_owner(transactions[tx].user_id, user)
           THEN StatusFinish(p, r, "status_forbidden", NoResponse)
           ELSE StatusFinish(p, r, "status_returned",
                             <<DepositStatusResponse(transactions[tx])>>)

StatusArrives(p) ==
    \E user \in Users \cup Registrants, reference \in Refs \cup {MaxRefs + 1} :
        check_deposit_status(p, user, reference)

NextAccounts ==
    \/ \E p \in Procs : RegisterArrives(p) /\ UNCHANGED <<keyvars, applied, deactivated>>
    \/ \E p \in Procs : create_user(p) /\ UNCHANGED <<keyvars, applied, deactivated>>
    \/ \E p \in Procs : CreateWalletAttempt(p) /\ UNCHANGED <<keyvars, applied, deactivated>>
    \/ \E p \in Procs : DepositArrives(p) /\ UNCHANGED <<keyvars, applied, deactivated>>
    \/ \E p \in Procs : DepositInitialize(p) /\ UNCHANGED <<keyvars, applied, deactivated>>
    \/ \E p \in Procs : DepositRecord(p) /\ UNCHANGED <<keyvars, applied, deactivated>>
    \/ \E p \in Procs : StatusArrives(p) /\ UNCHANGED <<keyvars, applied, deactivated>>
    \/ \E p \in Procs : CallbackArrives(p) /\ UNCHANGED <<users, keyvars, applied, deactivated>>
    \/ \E p \in Procs : CallbackCommitMismatch(p) /\ UNCHANGED <<users, keyvars, applied, deactivated>>
    \/ \E p \in Procs : CallbackSelectWallet(p) /\ UNCHANGED <<users, keyvars, applied, deactivated>>
    \/ \E p \in Procs : CallbackCredit(p) /\ UNCHANGED <<users, keyvars, applied, deactivated>>
    \/ \E p \in Procs : CallbackFlip(p) /\ UNCHANGED <<users, keyvars, applied, deactivated>>
    \/ \E p \in Procs : CallbackCommitFailed(p) /\ UNCHANGED <<users, keyvars, applied, deactivated>>
    \/ \E p \in Procs : Respond(p) /\ UNCHANGED <<users, keyvars, applied, deactivated>>

SpecAccounts == Init /\ [][NextAccounts]_vars

\* ==================================================================== claims
ReconcileOps == {"webhook", "callback"}
CreditedResults == {"wallet_credited", "already_processed", "page_success"}
MismatchResults == {"amount_mismatch", "page_amount_mismatch"}
MismatchPcs == {"wh_commit_mismatch", "cb_commit_mismatch"}

Observed(result) ==
    IF result \in CreditedResults THEN SUCCESS
    ELSE IF result \in MismatchResults \cup {"transaction_failed", "page_payment_failed"}
         THEN FAILED
    ELSE "error"

Moves(p) == pc'[p] # pc[p]

\* C1: in every reachable state every wallet's balance is >= 0.
C1_BalanceNonNegative ==
    \A u \in DOMAIN wallets : wallets[u].balance >= 0

\* a wallet funded by a reconciliation, and a transfer attempt on it that passed
\* every check and has ended
C1_Witness ==
    \E p \in Procs :
        /\ pc[p] = "done" /\ req[p].op = "transfer" /\ req[p].result = "transfer_failed"
        /\ wallets[req[p].wallet].balance > 0

\* C2: two reconciliation calls for one reference, both with processor status
\* success and the recorded amount, credit the wallet exactly once and observe
\* the same final status.
C2_SingleCredit ==
    \A p, q \in Procs :
        ( /\ p # q /\ pc[p] = "done" /\ pc[q] = "done"
          /\ req[p].op \in ReconcileOps /\ req[q].op \in ReconcileOps
          /\ req[p].ref = req[q].ref
          /\ req[p].okInput /\ req[q].okInput )
        => /\ credits[req[p].ref] = 1
           /\ Observed(req[p].result) = Observed(req[q].result)

\* C3: a transfer attempt commits the debit, the credit and both records, or
\* none of them; when it does not commit all of them it reports a failure, and
\* no step before the try block changes a wallet or a record.
TransferCommitsAll(p) ==
    LET r == req[p]
    IN  /\ wallets' = [wallets EXCEPT ![r.wallet].balance = r.balance - r.amount,
                                      ![r.recipient].balance = r.rbalance + r.amount]
        /\ transactions' =
             transactions \o
               << Transaction(r.wallet, r.wallet, TRANSFER, r.amount, SUCCESS, NoRef,
                              r.wallet_number),
                  Transaction(r.recipient, r.recipient, DEPOSIT, r.amount, SUCCESS, NoRef, "") >>

TransferCommitsNone == wallets' = wallets /\ transactions' = transactions

C3_TransferAllOrNothing ==
    [][\A p \in Procs :
          /\ (pc[p] = "tf_execute" /\ Moves(p))
               => \/ TransferCommitsAll(p) /\ req'[p].result = "transfer_success"
                  \/ TransferCommitsNone /\ req'[p].result = "transfer_failed"
          /\ (Moves(p) /\ req'[p].op = "transfer" /\ pc[p] # "tf_execute")
               => TransferCommitsNone]_vars

\* a transfer that passed every check has run its try block
C3_Witness ==
    \E p \in Procs :
        /\ pc[p] = "done" /\ req[p].op = "transfer"
        /\ req[p].result = "transfer_failed" /\ req[p].seen >= req[p].amount

\* C4: a transfer that passes every check succeeds: the sender is debited and the
\* recipient credited by the amount, the two records are added, and the call
\* returns both wallets' new balances.
C4_TransferSucceeds ==
    [][\A p \in Procs :
          (pc[p] = "tf_execute" /\ Moves(p) /\ req'[p].persist = "ok"
             /\ req[p].balance = wallets[req[p].wallet].balance
             /\ req[p].rbalance = wallets[req[p].recipient].balance)
          => /\ req'[p].result = "transfer_success"
             /\ TransferCommitsAll(p)
             /\ req'[p].balance = wallets'[req[p].wallet].balance
             /\ req'[p].rbalance = wallets'[req[p].recipient].balance]_vars

\* C5: of two transfers from one sender that both read balance b, with amounts
\* a1, a2 <= b and a1 + a2 > b, at most one succeeds and the sender ends with b
\* less the amount of the one that succeeded.
Debited(p) == IF req[p].result = "transfer_success" THEN req[p].amount ELSE 0

C5_NoDoubleSpend ==
    \A p, q \in Procs :
        ( /\ p # q /\ pc[p] = "done" /\ pc[q] = "done"
          /\ req[p].op = "transfer" /\ req[q].op = "transfer"
          /\ req[p].result \in {"transfer_success", "transfer_failed"}
          /\ req[q].result \in {"transfer_success", "transfer_failed"}
          /\ req[p].wallet = req[q].wallet
          /\ req[p].seen = req[q].seen
          /\ req[p].amount + req[q].amount > req[p].seen )
        => /\ ~(req[p].result = "transfer_success" /\ req[q].result = "transfer_success")
           /\ wallets[req[p].wallet].balance = req[p].seen - Debited(p) - Debited(q)

\* both transfers passed the balance check on the same balance and have ended
C5_Witness ==
    \E p, q \in Procs :
        /\ p # q /\ pc[p] = "done" /\ pc[q] = "done"
        /\ req[p].op = "transfer" /\ req[q].op = "transfer"
        /\ req[p].result = "transfer_failed" /\ req[q].result = "transfer_failed"
        /\ req[p].wallet = req[q].wallet /\ req[p].seen = req[q].seen
        /\ req[p].amount <= req[p].seen /\ req[q].amount <= req[q].seen
        /\ req[p].amount + req[q].amount > req[p].seen

\* C6: a transaction that is success or failed keeps that status for good, and no
\* later notification or verification credits the wallet for it.
C6_TerminalStatus ==
    [][\A i \in DOMAIN transactions :
          transactions[i].status \in {SUCCESS, FAILED}
          => /\ transactions'[i].status = transactions[i].status
             /\ (transactions[i].reference # NoRef
                  => credits'[transactions[i].reference] = credits[transactions[i].reference])]_vars

\* C7: no committed state has the wallet credited for a reference whose
\* transaction is not success.
C7_CreditOnlyWithSuccess ==
    \A r \in Refs :
        credits[r] > 0
        => /\ get_transaction_by_reference(r) # 0
           /\ transactions[get_transaction_by_reference(r)].status = SUCCESS

\* C8: a validly signed charge-succeeded notification or a verification that
\* finds its reference already success ends at once with the success /
\* already-processed result and changes no wallet, no record and no credit.
C8_IdempotentAfterSuccess ==
    [][\A p \in Procs :
          ( /\ pc[p] = "idle" /\ Moves(p)
            /\ req'[p].op \in ReconcileOps /\ req'[p].tx # 0
            /\ transactions[req'[p].tx].status = SUCCESS )
          => /\ pc'[p] = "done"
             /\ req'[p].result \in {"already_processed", "page_success"}
             /\ wallets' = wallets /\ transactions' = transactions
             /\ credits' = credits]_vars

\* a second call for a reference that was credited once has been answered
C8_Witness ==
    \E p \in Procs :
        /\ pc[p] = "done" /\ req[p].op \in ReconcileOps
        /\ req[p].result \in {"already_processed", "page_success"}
        /\ req[p].tx # 0 /\ credits[req[p].ref] = 1
        /\ transactions[req[p].tx].status = SUCCESS
        /\ wallets[req[p].wallet].balance = transactions[req[p].tx].amount
        /\ \A q \in Procs \ {p} : pc[q] = "idle"

\* C9: with no other call in flight, a validly signed charge-succeeded
\* notification with status success and the recorded amount A for a pending
\* deposit is taken to the credit, raises the owner's balance by exactly A,
\* changes no other wallet and sets the transaction to success.
C9_NotificationCredits ==
    [][\A p \in Procs :
          /\ ( /\ pc[p] = "idle" /\ Moves(p) /\ req'[p].op = "webhook"
                /\ req'[p].okInput /\ transactions[req'[p].tx].status = PENDING )
               => pc'[p] = "wh_select_wallet" /\ wallets' = wallets
          /\ (pc[p] = "wh_select_wallet" /\ Moves(p))
               => pc'[p] = "wh_credit" /\ wallets' = wallets
                  /\ req'[p].wallet = transactions[req[p].tx].user_id
          /\ (pc[p] = "wh_credit" /\ Moves(p))
               => /\ pc'[p] = "wh_flip"
                  /\ wallets' = [wallets EXCEPT ![transactions[req[p].tx].user_id].balance =
                                                   @ + transactions[req[p].tx].amount]
          /\ (pc[p] = "wh_flip" /\ Moves(p))
               => /\ req'[p].result = "wallet_credited"
                  /\ wallets' = wallets
                  /\ transactions'[req[p].tx].status = SUCCESS]_vars

\* the notification has credited the owner and nobody else
C9_Witness ==
    \E p \in Procs :
        /\ pc[p] = "done" /\ req[p].result = "wallet_credited"
        /\ transactions[req[p].tx].status = SUCCESS
        /\ wallets[req[p].wallet].balance = transactions[req[p].tx].amount
        /\ \A u \in Users \ {req[p].wallet} : wallets[u].balance = 0

\* C10: a notification or verification that reports, for a transaction that is
\* not success, an amount other than the recorded one goes to the mismatch
\* branch only: the transaction is marked failed, no balance changes, no credit
\* is made and the call ends with the amount-mismatch error.
C10_MismatchNeverCredits ==
    [][\A p \in Procs :
          /\ (pc[p] = "idle" /\ Moves(p) /\ req'[p].mismatch)
               => pc'[p] \in MismatchPcs /\ wallets' = wallets /\ credits' = credits
          /\ (pc[p] \in MismatchPcs /\ Moves(p))
               => /\ pc'[p] = "done"
                  /\ req'[p].result \in MismatchResults
                  /\ transactions'[req[p].tx].status = FAILED
                  /\ wallets' = wallets /\ credits' = credits
          /\ req[p].mismatch => pc[p] \in MismatchPcs \cup {"done"}]_vars

\* a mismatching call has been rejected and its transaction is failed
C10_Witness ==
    \E p \in Procs :
        /\ pc[p] = "done" /\ req[p].mismatch
        /\ req[p].result \in MismatchResults
        /\ transactions[req[p].tx].status = FAILED
        /\ \A u \in Users : wallets[u].balance = 0

\* C11: a transfer attempt that fails a check (sender wallet missing, recipient
\* wallet missing, self-transfer, inactive wallet, insufficient funds) ends at
\* that check, before the try block, and none of its steps changes a wallet or a
\* transaction record.
ValidationResults == {"sender_wallet_not_found", "recipient_wallet_not_found",
                      "self_transfer", "sender_wallet_inactive",
                      "recipient_wallet_inactive", "insufficient_balance"}

FailsValidation(r) ==
    \/ \A u \in DOMAIN wallets : wallets[u].wallet_number # r.wallet_number
    \/ \E u \in DOMAIN wallets :
         /\ wallets[u].wallet_number = r.wallet_number
         /\ \/ u = r.wallet
            \/ ~r.active
            \/ ~wallets[u].is_active
            \/ r.balance < r.amount

C11_FailedValidationChangesNothing ==
    [][\A p \in Procs :
          /\ (pc[p] = "tf_select_recipient" /\ Moves(p) /\ FailsValidation(req[p]))
               => /\ pc'[p] = "done"
                  /\ req'[p].result \in ValidationResults
          /\ (Moves(p) /\ req'[p].op = "transfer" /\ req'[p].result \in ValidationResults)
               => wallets' = wallets /\ transactions' = transactions]_vars

\* a transfer of more than a funded sender holds has been refused and the
\* credited balance and the deposit's record are still there
C11_Witness ==
    \E p \in Procs :
        /\ pc[p] = "done" /\ req[p].op = "transfer"
        /\ req[p].result = "insufficient_balance"
        /\ wallets[req[p].wallet].balance > 0
        /\ Len(transactions) = 1

\* C12: a transfer whose recipient account number is the sender's own wallet is
\* refused as a self-transfer whatever the amount and the balance, also when
\* the balance is lower than the amount.
C12_SelfTransferRejected ==
    [][\A p \in Procs :
          ( /\ pc[p] = "tf_select_recipient" /\ Moves(p)
            /\ req[p].wallet_number = wallets[req[p].wallet].wallet_number )
          => /\ pc'[p] = "done"
             /\ req'[p].result = "self_transfer"
             /\ wallets' = wallets /\ transactions' = transactions]_vars

\* a self-transfer of more than the balance has been refused as a self-transfer
C12_Witness ==
    \E p \in Procs :
        /\ pc[p] = "done" /\ req[p].op = "transfer"
        /\ req[p].result = "self_transfer"
        /\ req[p].wallet_number = wallets[req[p].wallet].wallet_number
        /\ wallets[req[p].wallet].balance > 0
        /\ wallets[req[p].wallet].balance < req[p].amount

\* C13: a transfer of more than the sender's balance (as the call read it) to an
\* existing, distinct, active recipient is refused for insufficient balance and
\* both balances stay as they were.
C13_InsufficientFunds ==
    [][\A p \in Procs : \A u \in Users :
          ( /\ pc[p] = "tf_select_recipient" /\ Moves(p)
            /\ wallets[u].wallet_number = req[p].wallet_number
            /\ u # req[p].wallet
            /\ req[p].active /\ wallets[u].is_active
            /\ req[p].amount > req[p].balance )
          => /\ pc'[p] = "done"
             /\ req'[p].result = "insufficient_balance"
             /\ wallets'[req[p].wallet].balance = wallets[req[p].wallet].balance
             /\ wallets'[u].balance = wallets[u].balance]_vars

\* sender funded with 1.00, transfer of 2.50 to the other user's wallet refused
C13_Witness ==
    \E p \in Procs : \E u \in Users :
        /\ pc[p] = "done" /\ req[p].op = "transfer"
        /\ req[p].result = "insufficient_balance"
        /\ u # req[p].wallet /\ wallets[u].wallet_number = req[p].wallet_number
        /\ wallets[req[p].wallet].balance = 1000 /\ req[p].amount = 2500
        /\ wallets[u].balance = 0

\* -------------------------------------------------------------------- API keys
KeyMoves(p) == kpc'[p] # kpc[p]

ActiveKeyIds(u) ==
    {i \in DOMAIN api_keys : /\ api_keys[i].user_id = u
                             /\ ~api_keys[i].is_revoked
                             /\ api_keys[i].expires_at > now}

OthersUnchanged(k) ==
    \A i \in DOMAIN api_keys : i # k => api_keys'[i] = api_keys[i]

\* C14: in every reachable state, also under overlapping create_api_key and
\* rollover_api_key calls of one user, each user has at most 5 keys that are
\* not revoked and not expired.
C14_AtMostFiveActiveKeys ==
    \A u \in Users : Cardinality(ActiveKeyIds(u)) <= MaxActiveKeys

\* C15: create_api_key for a user with exactly 5 active keys is refused with the
\* key-limit error and persists no key; for a user with fewer (as after one of
\* the 5 was revoked) it passes the limit check and, the expiry being well
\* formed, persists exactly one new active key of that user.
C15_KeyLimit ==
    [][\A p \in Procs :
          /\ ( /\ kpc[p] = "idle" /\ KeyMoves(p) /\ kreq'[p].op = "create"
                /\ Cardinality(ActiveKeyIds(kreq'[p].user)) = MaxActiveKeys )
               => /\ kpc'[p] = "done" /\ kreq'[p].result = "key_limit"
                  /\ api_keys' = api_keys
          /\ ( /\ kpc[p] = "idle" /\ KeyMoves(p) /\ kreq'[p].op = "create"
                /\ Cardinality(ActiveKeyIds(kreq'[p].user)) < MaxActiveKeys )
               => kpc'[p] = "ck_commit" /\ api_keys' = api_keys
          /\ ( /\ kpc[p] = "ck_commit" /\ KeyMoves(p)
                /\ parse_expiry(kreq[p].expiry, now).ok )
               => /\ kreq'[p].result = "key_created"
                  /\ Len(api_keys') = Len(api_keys) + 1
                  /\ OthersUnchanged(Len(api_keys'))
                  /\ api_keys'[Len(api_keys')].user_id = kreq[p].user
                  /\ ~api_keys'[Len(api_keys')].is_revoked]_vars

\* a create was refused at 5 active keys; a key was revoked and the create that
\* followed went through, bringing the user back to 5
C15_Witness ==
    \E p, q \in Procs :
        /\ kpc[q] = "done" /\ kreq[q].op = "create" /\ kreq[q].result = "key_limit"
        /\ kpc[p] = "done" /\ kreq[p].op = "create" /\ kreq[p].result = "key_created"
        /\ kreq[p].user = kreq[q].user
        /\ \E i \in DOMAIN api_keys : api_keys[i].user_id = kreq[p].user
                                      /\ api_keys[i].is_revoked
        /\ Cardinality(ActiveKeyIds(kreq[p].user)) = MaxActiveKeys
        /\ Len(api_keys) = MaxActiveKeys + 1

\* C16: verify_api_key goes on to stamp and return a key only when a stored key
\* has the hash of the plaintext and is, when looked up, active, not revoked and
\* not expired; in every other case it returns not-found and writes nothing;
\* the stamp changes last_used_at of that key and nothing else.
Acceptable(k, plain) ==
    /\ k \in DOMAIN api_keys
    /\ api_keys[k].key_hash = hash_api_key(plain)
    /\ api_keys[k].is_active /\ ~api_keys[k].is_revoked
    /\ ~(now > api_keys[k].expires_at)

C16_VerifyChecksAll ==
    [][\A p \in Procs :
          /\ (kpc[p] = "idle" /\ KeyMoves(p) /\ kreq'[p].op = "verify")
               => /\ api_keys' = api_keys
                  /\ IF \E k \in DOMAIN api_keys : Acceptable(k, kreq'[p].plain)
                     THEN /\ kpc'[p] = "vk_stamp"
                          /\ Acceptable(kreq'[p].key, kreq'[p].plain)
                     ELSE kpc'[p] = "done" /\ kreq'[p].result = "not_found"
          /\ (kpc[p] = "vk_stamp" /\ KeyMoves(p))
               => /\ kreq'[p].result = "verified"
                  /\ api_keys' = [api_keys EXCEPT ![kreq[p].key].last_used_at = now]]_vars

\* the plaintext of an expired key that was never revoked has been refused and
\* the key carries no stamp
C16_Witness ==
    \E p \in Procs : \E k \in DOMAIN api_keys :
        /\ kpc[p] = "done" /\ kreq[p].op = "verify" /\ kreq[p].result = "not_found"
        /\ api_keys[k].key_hash = hash_api_key(kreq[p].plain)
        /\ ~api_keys[k].is_revoked /\ api_keys[k].is_active
        /\ now > api_keys[k].expires_at
        /\ api_keys[k].last_used_at = NoTime

\* C17: a revoked key stays revoked and inactive whatever runs; a verification
\* that looks it up is refused; revoking it again is accepted, answers like the
\* first time and leaves the table as it is.
C17_RevocationTerminal ==
    [][/\ \A k \in DOMAIN api_keys :
             api_keys[k].is_revoked
             => /\ k \in DOMAIN api_keys'
                /\ api_keys'[k].is_revoked /\ ~api_keys'[k].is_active
       /\ \A p \in Procs :
             /\ ( /\ kpc[p] = "idle" /\ KeyMoves(p) /\ kreq'[p].op = "verify"
                   /\ \E k \in DOMAIN api_keys :
                        /\ api_keys[k].key_hash = hash_api_key(kreq'[p].plain)
                        /\ api_keys[k].is_revoked )
                  => kpc'[p] = "done" /\ kreq'[p].result = "not_found"
             /\ ( /\ kpc[p] = "idle" /\ KeyMoves(p) /\ kreq'[p].op = "revoke"
                   /\ kreq'[p].key \in DOMAIN api_keys
                   /\ api_keys[kreq'[p].key].user_id = kreq'[p].user
                   /\ api_keys[kreq'[p].key].is_revoked )
                  => kpc'[p] = "rk_commit" /\ api_keys' = api_keys
             /\ ( /\ kpc[p] = "rk_commit" /\ KeyMoves(p)
                   /\ api_keys[kreq[p].key].is_revoked )
                  => kreq'[p].result = "revoked" /\ api_keys' = api_keys]_vars

\* the same key has been revoked twice and both calls were answered as a success
C17_Witness ==
    \E p, q \in Procs : \E k \in DOMAIN api_keys :
        /\ p # q /\ api_keys[k].is_revoked /\ ~api_keys[k].is_active
        /\ kpc[p] = "done" /\ kreq[p].op = "revoke" /\ kreq[p].key = k
        /\ kreq[p].result = "revoked"
        /\ kpc[q] = "done" /\ kreq[q].op = "revoke" /\ kreq[q].key = k
        /\ kreq[q].result = "revoked"

\* C18 (as stated): rollover_api_key on an owned key whose expiry has passed
\* always succeeds: it goes through the limit check, revokes the old key and
\* issues exactly one new key of the same user with the old key's permissions
\* and the expiry computed from the new expiry spec.
RolloverStarts(p) ==
    /\ kpc[p] = "idle" /\ KeyMoves(p) /\ kreq'[p].op = "rollover"
    /\ kreq'[p].key \in DOMAIN api_keys
    /\ api_keys[kreq'[p].key].user_id = kreq'[p].user
    /\ now > api_keys[kreq'[p].key].expires_at

RolloverIssues(p) ==
    LET old == kreq[p].key
        new == Len(api_keys) + 1
    IN  /\ kreq'[p].result = "rolled_over"
        /\ Len(api_keys') = new
        /\ OthersUnchanged(old)
        /\ api_keys'[old] = [api_keys[old] EXCEPT !.is_revoked = TRUE, !.is_active = FALSE]
        /\ api_keys'[new].user_id = api_keys[old].user_id
        /\ api_keys'[new].permissions = api_keys[old].permissions
        /\ api_keys'[new].expires_at = parse_expiry(kreq[p].expiry, now).at
        /\ api_keys'[new].is_active /\ ~api_keys'[new].is_revoked

C18_RolloverSucceeds ==
    [][\A p \in Procs :
          /\ RolloverStarts(p) => kpc'[p] = "ro_count"
          /\ (kpc[p] = "ro_count" /\ KeyMoves(p)) => kpc'[p] = "ro_commit"
          /\ (kpc[p] = "ro_commit" /\ KeyMoves(p) /\ parse_expiry(kreq[p].expiry, now).ok)
               => RolloverIssues(p)]_vars

\* C18 (within the key limit): the same, for a user who has fewer than 5 active
\* keys when the replacement is counted.
C18_RolloverWithinLimit ==
    [][\A p \in Procs :
          /\ RolloverStarts(p) => kpc'[p] = "ro_count"
          /\ ( /\ kpc[p] = "ro_count" /\ KeyMoves(p)
                /\ Cardinality(ActiveKeyIds(kreq[p].user)) < MaxActiveKeys )
               => kpc'[p] = "ro_commit"
          /\ (kpc[p] = "ro_commit" /\ KeyMoves(p) /\ parse_expiry(kreq[p].expiry, now).ok)
               => RolloverIssues(p)]_vars

\* an expired key with permissions {deposit, transfer} has been rolled over: it
\* is revoked and the newest key carries its permissions
C18_Witness ==
    \E p \in Procs :
        /\ kpc[p] = "done" /\ kreq[p].op = "rollover" /\ kreq[p].result = "rolled_over"
        /\ api_keys[kreq[p].key].is_revoked
        /\ now > api_keys[kreq[p].key].expires_at
        /\ api_keys[kreq[p].key].permissions = {"deposit", "transfer"}
        /\ api_keys[Len(api_keys)].permissions = {"deposit", "transfer"}
        /\ api_keys[Len(api_keys)].user_id = kreq[p].user
        /\ api_keys[Len(api_keys)].expires_at = now + 1
        /\ Len(api_keys) = SeededKeys + 2

\* C19: rollover_api_key on an owned key whose expiry has not passed is refused
\* as not expired, and on a key that is missing or owned by someone else as not
\* found; either way no key is issued and no flag of any key changes.
C19_RolloverRejections ==
    [][\A p \in Procs :
          (kpc[p] = "idle" /\ KeyMoves(p) /\ kreq'[p].op = "rollover")
          => LET k == kreq'[p].key
             IN  /\ ( k \notin DOMAIN api_keys
                      \/ (k \in DOMAIN api_keys /\ api_keys[k].user_id # kreq'[p].user) )
                      => /\ kpc'[p] = "done" /\ kreq'[p].result = "key_not_found"
                         /\ api_keys' = api_keys
                 /\ ( /\ k \in DOMAIN api_keys /\ api_keys[k].user_id = kreq'[p].user
                      /\ ~(now > api_keys[k].expires_at) )
                      => /\ kpc'[p] = "done" /\ kreq'[p].result = "not_expired"
                         /\ api_keys' = api_keys]_vars

\* one rollover of a live key was refused as not expired, one by a user who does
\* not own the key as not found, and the table is as it was at the start
C19_Witness ==
    \E p, q \in Procs :
        /\ kpc[p] = "done" /\ kreq[p].op = "rollover" /\ kreq[p].result = "not_expired"
        /\ kpc[q] = "done" /\ kreq[q].op = "rollover" /\ kreq[q].result = "key_not_found"
        /\ kreq[q].key \in DOMAIN api_keys
        /\ api_keys[kreq[q].key].user_id # kreq[q].user
        /\ api_keys = [i \in 1..SeededKeys |-> SeededKey(i)]

\* C20: a rollover that is past the expiry check either issues the replacement
\* in the same commit that revokes the old key, or fails (key limit, malformed
\* expiry) and leaves the table as it was; its earlier steps write nothing.
C20_RolloverAtomic ==
    [][\A p \in Procs :
          /\ (kpc[p] = "idle" /\ KeyMoves(p) /\ kreq'[p].op = "rollover")
               => api_keys' = api_keys
          /\ (kpc[p] \in {"ro_count", "ro_commit"} /\ KeyMoves(p))
               => \/ kpc'[p] = "ro_commit" /\ api_keys' = api_keys
                  \/ /\ kpc'[p] = "done" /\ kreq'[p].result = "rolled_over"
                     /\ Len(api_keys') = Len(api_keys) + 1
                     /\ api_keys'[kreq[p].key].is_revoked
                     /\ api_keys'[Len(api_keys')].user_id = kreq[p].user
                  \/ /\ kpc'[p] = "done"
                     /\ kreq'[p].result \in {"key_limit", "invalid_expiry"}
                     /\ api_keys' = api_keys]_vars

\* a rollover of an expired key was refused at the key limit and the old key is
\* not revoked
C20_Witness ==
    \E p \in Procs :
        /\ kpc[p] = "done" /\ kreq[p].op = "rollover" /\ kreq[p].result = "key_limit"
        /\ now > api_keys[kreq[p].key].expires_at
        /\ ~api_keys[kreq[p].key].is_revoked /\ api_keys[kreq[p].key].is_active
        /\ Cardinality(ActiveKeyIds(kreq[p].user)) = MaxActiveKeys

\* ------------------------------------------------------------------ access gate
GateStarts(p) == kpc[p] = "idle" /\ KeyMoves(p) /\ kreq'[p].op = "gate"

\* C21: require_permission(P) lets the gated operation run exactly when the
\* request is session-authenticated (no key is resolved) or the key resolved
\* from the header holds P; a resolved key without P is refused with the
\* permission error, and a request that resolves to nothing runs nothing.
C21_PermissionGate ==
    [][\A p \in Procs :
          /\ GateStarts(p)
               => /\ api_keys' = api_keys
                  /\ IF kreq'[p].session
                     THEN /\ kpc'[p] = "done" /\ kreq'[p].result = "operation_ran"
                          /\ kreq'[p].key = NoKey
                     ELSE IF \E k \in DOMAIN api_keys : Acceptable(k, kreq'[p].plain)
                     THEN /\ kpc'[p] = "gk_stamp"
                          /\ Acceptable(kreq'[p].key, kreq'[p].plain)
                     ELSE /\ kpc'[p] = "done"
                          /\ kreq'[p].result \in {"unauthenticated", "server_error"}
          /\ (kpc[p] = "gk_stamp" /\ KeyMoves(p))
               => /\ kpc'[p] = "done"
                  /\ kreq'[p].result =
                       IF kreq[p].permission \in api_keys[kreq[p].key].permissions
                       THEN "operation_ran" ELSE "permission_denied"]_vars

\* two requests under keys and no session asked for the transfer permission:
\* the key without it was refused, the key with it was let through
C21_Witness ==
    \E p, q \in Procs :
        /\ kpc[p] = "done" /\ kreq[p].op = "gate" /\ ~kreq[p].session
        /\ kreq[p].result = "permission_denied" /\ kreq[p].permission = "transfer"
        /\ "transfer" \notin api_keys[kreq[p].key].permissions
        /\ kpc[q] = "done" /\ kreq[q].op = "gate" /\ ~kreq[q].session
        /\ kreq[q].result = "operation_ran" /\ kreq[q].permission = "transfer"
        /\ "transfer" \in api_keys[kreq[q].key].permissions

\* ------------------------------------------------------------ key disclosure
KeyColumns == {"user_id", "name", "key_prefix", "key_hash", "permissions", "expires_at",
               "is_active", "is_revoked", "last_used_at"}

ListItemFields == {"id", "name", "key_prefix", "permissions", "expires_at", "is_active",
                   "is_revoked", "last_used_at"}

\* the response carries the plaintext of key n, as the secret or as a stored value
Discloses(response, n) ==
    \E i \in DOMAIN response :
        \E f \in DOMAIN response[i] \cap {"api_key", "key_hash"} :
            response[i][f] = generate_api_key(n)

StoresNoPlaintext ==
    \A n \in DOMAIN api_keys :
        /\ DOMAIN api_keys[n] = KeyColumns
        /\ api_keys[n].key_hash # generate_api_key(n)
        /\ api_keys[n].key_prefix = generate_api_key(n)[1]

\* C22: a stored key holds the hash and the prefix, never the plaintext; a
\* response carries the plaintext of a key exactly when it is the response of the
\* create_api_key or rollover_api_key call that has just inserted that key; a
\* listing carries the metadata fields only.
C22_SecretDisclosedOnce ==
    /\ []StoresNoPlaintext
    /\ [][\A p \in Procs :
            (KeyMoves(p) /\ kpc'[p] = "done")
              => /\ \A n \in 1..MaxKeys :
                      Discloses(kreq'[p].response, n)
                        <=> /\ kreq'[p].op \in {"create", "rollover"}
                            /\ n = Len(api_keys') /\ Len(api_keys') = Len(api_keys) + 1
                 /\ kreq'[p].op = "list"
                      => \A i \in DOMAIN kreq'[p].response :
                            DOMAIN kreq'[p].response[i] = ListItemFields]_vars

\* a create returned the plaintext of the key it inserted, and a listing of the
\* same user that shows this key and the ones before it returned no plaintext
C22_Witness ==
    \E p, q \in Procs :
        /\ kpc[p] = "done" /\ kreq[p].op = "create" /\ kreq[p].result = "key_created"
        /\ Discloses(kreq[p].response, kreq[p].key)
        /\ kpc[q] = "done" /\ kreq[q].op = "list" /\ kreq[q].user = kreq[p].user
        /\ \E i \in DOMAIN kreq[q].response : kreq[q].response[i].id = kreq[p].key
        /\ Len(kreq[q].response) > SeededKeys
        /\ \A n \in DOMAIN api_keys : ~Discloses(kreq[q].response, n)

\* ------------------------------------------------------------ notifications
WebhookStarts(p) == pc[p] = "idle" /\ Moves(p) /\ req'[p].op = "webhook"

NamesPending(reference) ==
    \E i \in DOMAIN transactions : /\ transactions[i].reference = reference
                                   /\ transactions[i].status = PENDING

\* C25: a notification signed with anything but the shared secret is answered
\* with the signature error in its first step, before the body is parsed or a
\* reference looked up, and no transaction and no wallet changes.
C25_SignatureFirst ==
    [][\A p \in Procs :
          (WebhookStarts(p) /\ req'[p].signer # PAYSTACK_SECRET_KEY)
            => /\ pc'[p] = "done" /\ req'[p].result = "invalid_signature"
               /\ wallets' = wallets /\ transactions' = transactions]_vars

\* a notification under a foreign key that named a pending deposit was refused;
\* the deposit is still pending and no wallet holds money
C25_Witness ==
    \E p \in Procs :
        /\ pc[p] = "done" /\ req[p].op = "webhook" /\ req[p].signer # PAYSTACK_SECRET_KEY
        /\ req[p].result = "invalid_signature"
        /\ NamesPending(req[p].ref)
        /\ \A w \in DOMAIN wallets : wallets[w].balance = 0

\* C28: a notification with a valid signature and a parseable body whose event
\* is not charge.success is acknowledged in its first step, and no transaction
\* and no wallet changes, also when it names a pending reference.
C28_OtherEventsIgnored ==
    [][\A p \in Procs :
          (WebhookStarts(p) /\ req'[p].event \notin {"none", "charge.success"})
            => /\ pc'[p] = "done" /\ req'[p].result = "event_ignored"
               /\ wallets' = wallets /\ transactions' = transactions]_vars

\* a validly signed transfer.success notification that named a pending deposit
\* was acknowledged; the deposit is still pending and no wallet holds money
C28_Witness ==
    \E p \in Procs :
        /\ pc[p] = "done" /\ req[p].op = "webhook" /\ req[p].signer = PAYSTACK_SECRET_KEY
        /\ req[p].event = "transfer.success" /\ req[p].result = "event_ignored"
        /\ NamesPending(req[p].ref)
        /\ \A w \in DOMAIN wallets : wallets[w].balance = 0

\* ------------------------------------------------------------------- accounts
WalletsOf(u) == {w \in DOMAIN wallets : wallets[w].user_id = u}

BalancesUnchanged ==
    \A w \in DOMAIN wallets : w \in DOMAIN wallets' /\ wallets'[w].balance = wallets[w].balance

\* C23: every persisted user has a wallet once the call that created the user
\* is over: a user without a wallet is one whose create_user is still inserting.
C23_EveryUserHasWallet ==
    \A u \in users :
        \/ WalletsOf(u) # {}
        \/ \E p \in Procs : /\ pc[p] = "cw_insert" /\ req[p].op = "register"
                            /\ req[p].wallet = u

\* C24: a user never has two wallets, however get_or_create_wallet calls follow
\* or overlap; a call that finds the user's wallet goes on with that wallet and
\* inserts none, and a wallet is only ever inserted for a user who has none.
C24_AtMostOneWallet ==
    /\ [](\A u \in Users \cup Registrants : Cardinality(WalletsOf(u)) <= 1)
    /\ [][/\ \A p \in Procs :
               ( /\ pc[p] = "idle" /\ Moves(p) /\ req'[p].op = "deposit"
                 /\ WalletsOf(req'[p].wallet) # {} )
                 => /\ wallets' = wallets
                    /\ pc'[p] = "dp_initialize"
                    /\ req'[p].wallet_id \in WalletsOf(req'[p].wallet)
          /\ \A p \in Procs :
               (pc[p] \in {"dp_initialize", "dp_record"} /\ Moves(p)) => wallets' = wallets
          /\ \A w \in DOMAIN wallets' \ DOMAIN wallets :
               WalletsOf(wallets'[w].user_id) = {}]_vars

\* two deposits of a user without a wallet overlapped: one inserted the wallet
\* and went on with it, the other's insert was refused and it is retrying
C24_Witness ==
    \E p, q \in Procs : \E u \in Registrants :
        /\ req[p].op = "deposit" /\ req[p].wallet = u
        /\ pc[p] \in {"dp_initialize", "dp_record", "done"}
        /\ req[q].op = "deposit" /\ req[q].wallet = u
        /\ pc[q] = "cw_insert" /\ req[q].attempt > 0
        /\ Cardinality(WalletsOf(u)) = 1

\* C26: a deposit whose initialize call fails ends with the processor error; no
\* step of a deposit before the insert of its record changes a transaction or a
\* balance, and a record is inserted only by a deposit whose initialize call
\* returned, under the reference it returned.  A callback whose verify call
\* fails ends with the verification error and changes no transaction and no
\* wallet.
C26_ProcessorFailureChangesNothing ==
    [][/\ \A p \in Procs :
            /\ (pc[p] = "dp_initialize" /\ Moves(p) /\ req'[p].processor = "failed")
                 => pc'[p] = "done" /\ req'[p].result = "processor_error"
            /\ (Moves(p) /\ req'[p].op = "deposit" /\ pc[p] # "dp_record")
                 => transactions' = transactions /\ BalancesUnchanged
            /\ (pc[p] = "dp_record" /\ Moves(p))
                 => /\ req[p].processor = "ok" /\ req[p].ref # NoRef
                    /\ wallets' = wallets
                    /\ \/ transactions' = transactions
                       \/ /\ Len(transactions') = Len(transactions) + 1
                          /\ transactions'[Len(transactions')].reference = req[p].ref
                          /\ transactions'[Len(transactions')].status = PENDING
            /\ ( /\ pc[p] = "idle" /\ Moves(p) /\ req'[p].op = "callback"
                 /\ req'[p].processor = "failed" )
                 => /\ pc'[p] = "done" /\ req'[p].result = "page_verification_error"
                    /\ transactions' = transactions /\ wallets' = wallets
       /\ Len(transactions') > Len(transactions)
            => \E p \in Procs : pc[p] = "dp_record" /\ Moves(p)]_vars

\* a deposit was refused by the processor and left no record; the callback for
\* the one recorded deposit could not be verified and left it pending
C26_Witness ==
    \E p, q \in Procs :
        /\ pc[p] = "done" /\ req[p].op = "deposit" /\ req[p].result = "processor_error"
        /\ pc[q] = "done" /\ req[q].op = "callback"
        /\ req[q].result = "page_verification_error"
        /\ Len(transactions) = 1 /\ req[q].tx = 1 /\ transactions[1].status = PENDING
        /\ \A w \in DOMAIN wallets : wallets[w].balance = 0

\* C27: no two transaction records carry the same reference, unless it is the
\* null reference; an insert under a reference that is in the table adds nothing.
C27_UniqueReferences ==
    \A i, j \in DOMAIN transactions :
        (i # j /\ transactions[i].reference # NoRef)
          => transactions[i].reference # transactions[j].reference

\* a deposit whose reference was already recorded was refused at the insert and
\* the table holds the one earlier record
C27_Witness ==
    \E p \in Procs :
        /\ pc[p] = "done" /\ req[p].op = "deposit" /\ req[p].result = "reference_conflict"
        /\ Cardinality({i \in DOMAIN transactions :
                          transactions[i].reference = req[p].ref}) = 1
        /\ Len(transactions) = 1

StatusStarts(p) == pc[p] = "idle" /\ Moves(p) /\ req'[p].op = "status"

\* C29: a status query for a reference whose transaction belongs to another user
\* is answered Forbidden with no status and no amount; the owner is answered
\* with the stored status and amount.
C29_StatusOnlyToOwner ==
    [][\A p \in Procs :
          StatusStarts(p)
            => \A i \in DOMAIN transactions :
                  transactions[i].reference = req'[p].ref
                    => IF transactions[i].user_id # req'[p].wallet
                       THEN /\ req'[p].result = "status_forbidden"
                            /\ req'[p].response = NoResponse
                       ELSE /\ req'[p].result = "status_returned"
                            /\ req'[p].response =
                                 <<[reference |-> transactions[i].reference,
                                    status |-> transactions[i].status,
                                    amount |-> transactions[i].amount]>>]_vars

\* a user asked for the status of another user's deposit and was refused
C29_Witness ==
    \E p \in Procs :
        /\ pc[p] = "done" /\ req[p].op = "status" /\ req[p].result = "status_forbidden"
        /\ req[p].tx \in DOMAIN transactions
        /\ transactions[req[p].tx].user_id # req[p].wallet
        /\ req[p].wallet \in users
        /\ req[p].response = NoResponse

\* C30: a status query is one step that changes no transaction record and no
\* wallet and credits nothing, whoever asks, whatever the reference and whatever
\* the status of the transaction.
C30_StatusReadOnly ==
    [][\A p \in Procs :
          StatusStarts(p)
            => /\ pc'[p] = "done"
               /\ transactions' = transactions /\ wallets' = wallets
               /\ credits' = credits /\ users' = users]_vars

\* the owner was told that the deposit is pending: it still is, and nothing was
\* credited
C30_Witness ==
    \E p \in Procs :
        /\ pc[p] = "done" /\ req[p].op = "status" /\ req[p].result = "status_returned"
        /\ req[p].response[1].status = PENDING
        /\ transactions[req[p].tx].status = PENDING
        /\ \A w \in DOMAIN wallets : wallets[w].balance = 0
        /\ \A r \in Refs : credits[r] = 0

\* ------------------------------------------------------------ last claims
\* C31: revoke_api_key on a stored key of another user is answered in one step
\* with the not-found error and changes no key: its revoked and active flags,
\* like every other column of every key, stay as they were.
C31_RevokeForeignKeyNotFound ==
    [][\A p \in Procs :
          ( /\ kpc[p] = "idle" /\ KeyMoves(p) /\ kreq'[p].op = "revoke"
            /\ kreq'[p].key \in DOMAIN api_keys
            /\ api_keys[kreq'[p].key].user_id # kreq'[p].user )
          => /\ kpc'[p] = "done" /\ kreq'[p].result = "key_not_found"
             /\ api_keys' = api_keys]_vars

\* u2 asked to revoke a key of u1 and was told it does not exist; the key is
\* neither revoked nor inactive
C31_Witness ==
    \E p \in Procs :
        /\ kpc[p] = "done" /\ kreq[p].op = "revoke" /\ kreq[p].result = "key_not_found"
        /\ kreq[p].key \in DOMAIN api_keys
        /\ api_keys[kreq[p].key].user_id # kreq[p].user
        /\ ~api_keys[kreq[p].key].is_revoked /\ api_keys[kreq[p].key].is_active

\* C32: a request with no valid session and no acceptable key (no key header, an
\* unknown key, or a key that is revoked, inactive or expired) is answered by
\* get_current_user_or_api_key itself, in one step, as unauthenticated, and no
\* key is written.
C32_NoCredentialUnauthenticated ==
    [][\A p \in Procs :
          ( /\ GateStarts(p) /\ ~kreq'[p].session
            /\ ~\E k \in DOMAIN api_keys : Acceptable(k, kreq'[p].plain) )
          => /\ kpc'[p] = "done" /\ kreq'[p].result = "unauthenticated"
             /\ api_keys' = api_keys]_vars

\* C33: create_wallet_for_user makes at most 10 passes.  A pass whose generated
\* number and user violate no unique constraint inserts exactly one wallet, of
\* that user, under that number, with balance 0, and leaves the loop; a pass
\* that violates one inserts nothing and is followed by the next pass, except
\* the tenth, which ends the call with the error: then no wallet was persisted.
C33_WalletCreationBounded ==
    /\ [](\A p \in Procs :
            pc[p] = "cw_insert" => req[p].attempt \in 0..(max_attempts - 1))
    /\ [][\A p \in Procs :
            (pc[p] = "cw_insert" /\ req'[p] # req[p])
            => LET n == req'[p].wallet_number
                   u == req[p].wallet
                   collides == \E w \in DOMAIN wallets :
                                  \/ wallets[w].user_id = u
                                  \/ wallets[w].wallet_number = n
               IN  IF collides
                   THEN /\ wallets' = wallets
                        /\ IF req[p].attempt < max_attempts - 1
                           THEN /\ pc'[p] = "cw_insert"
                                /\ req'[p].attempt = req[p].attempt + 1
                           ELSE /\ pc'[p] = "done"
                                /\ req'[p].result = "wallet_number_exhausted"
                   ELSE /\ \E w \in DOMAIN wallets' \ DOMAIN wallets :
                             /\ DOMAIN wallets' = DOMAIN wallets \cup {w}
                             /\ wallets'[w].user_id = u
                             /\ wallets'[w].wallet_number = n
                             /\ wallets'[w].balance = 0
                        /\ \A w \in DOMAIN wallets : wallets'[w] = wallets[w]
                        /\ \/ pc'[p] = "done" /\ req'[p].result = "user_created"
                           \/ pc'[p] = "dp_initialize"]_vars

\* a registration drew a number in use on each of its ten passes: it ended with
\* the error and the user has no wallet
C33_Witness ==
    \E p \in Procs :
        /\ pc[p] = "done" /\ req[p].op = "register"
        /\ req[p].result = "wallet_number_exhausted"
        /\ req[p].wallet_number = WalletNumbers["u1"]
        /\ WalletsOf(req[p].wallet) = {}

\* ------------------------------------------------------------ update_balance, call after call
\* Calls of WalletService.update_balance that follow one another, each on the
\* wallet as the previous call left it.
MaxCalls == 3

OpeningBalances == {0, 1000}

BalanceOperations == {"add", "subtract"}

InitBalance ==
    \E b0 \in [Users -> OpeningBalances] :
        /\ wallets = [u \in Users |->
                        [id |-> u, user_id |-> u, wallet_number |-> WalletNumbers[u],
                         balance |-> b0[u], is_active |-> TRUE]]
        /\ applied = [u \in Users |-> [b0 |-> b0[u], log |-> <<>>]]
        /\ transactions = <<>>
        /\ pc = [p \in Procs |-> "idle"]
        /\ req = [p \in Procs |-> IdleReq]
        /\ credits = [r \in Refs |-> 0]
        /\ started = 0
        /\ users = Users
        /\ api_keys = <<>>
        /\ now = 0
        /\ kpc = [p \in Procs |-> "idle"]
        /\ kreq = [p \in Procs |-> IdleKeyReq]
        /\ kstarted = 0
        /\ deactivated = {}

\* One call: the raise leaves the wallet object and the session as they were;
\* otherwise the new balance is committed.
UpdateBalance(u, amount, operation) ==
    LET wallet == wallets[u]
        raises == update_balance_raises(wallet.balance, amount, operation)
    IN  /\ Len(applied[u].log) < MaxCalls
        /\ IF raises THEN UNCHANGED wallets
           ELSE CommitBalance(u, update_balance(wallet.balance, amount, operation))
        /\ applied' = [applied EXCEPT ![u].log =
                         Append(@, [amount |-> amount, operation |-> operation,
                                    raised |-> raises])]
        /\ UNCHANGED <<transactions, pc, req, credits, started, users, keyvars, deactivated>>

NextBalance ==
    \E u \in Users, amount \in TransferAmounts, operation \in BalanceOperations :
        UpdateBalance(u, amount, operation)

SpecBalance == InitBalance /\ [][NextBalance]_vars

RECURSIVE Added(_)
Added(log) ==
    IF log = <<>> THEN 0
    ELSE Added(Tail(log)) + IF Head(log).operation = "add" THEN Head(log).amount ELSE 0

RECURSIVE Subtracted(_)
Subtracted(log) ==
    IF log = <<>> THEN 0
    ELSE Subtracted(Tail(log))
         + IF Head(log).operation = "subtract" /\ ~Head(log).raised
           THEN Head(log).amount ELSE 0

\* C34: after any sequence of update_balance calls on a wallet its balance is
\* the opening balance plus the amounts added minus the amounts of the subtract
\* calls that did not raise; a subtract of more than the current balance raises
\* and leaves the balance as it was, any other call does not raise.
C34_BalanceIsSumOfCalls ==
    /\ [](\A u \in Users :
            wallets[u].balance
              = applied[u].b0 + Added(applied[u].log) - Subtracted(applied[u].log))
    /\ [][\A u \in Users :
            applied'[u] # applied[u]
            => LET call == applied'[u].log[Len(applied'[u].log)]
               IN  IF call.operation = "subtract" /\ call.amount > wallets[u].balance
                   THEN call.raised /\ wallets' = wallets
                   ELSE ~call.raised]_vars

\* a wallet opened with 1000: a subtract of 2500 raised, 2500 were added, 1000
\* subtracted; the balance is 2500
C34_Witness ==
    \E u \in Users :
        /\ applied[u].b0 = 1000
        /\ applied[u].log = << [amount |-> 2500, operation |-> "subtract", raised |-> TRUE],
                               [amount |-> 2500, operation |-> "add", raised |-> FALSE],
                               [amount |-> 1000, operation |-> "subtract", raised |-> FALSE] >>
        /\ wallets[u].balance = 2500

\* ------------------------------------------------------------ transfers between any wallets
\* Transfers over wallets as the table may hold them: is_active is a column no
\* request of this service writes, set on the row from outside; a registered
\* user may have no wallet yet.
TransferBalances == {0, 2500}

InitTransfer ==
    \E balance \in [Users -> TransferBalances], is_active \in [Users -> BOOLEAN] :
        /\ wallets = [u \in Users |->
                        [id |-> u, user_id |-> u, wallet_number |-> WalletNumbers[u],
                         balance |-> balance[u], is_active |-> is_active[u]]]
        /\ transactions = <<>>
        /\ pc = [p \in Procs |-> "idle"]
        /\ req = [p \in Procs |-> IdleReq]
        /\ credits = [r \in Refs |-> 0]
        /\ started = 0
        /\ users = Users \cup Registrants
        /\ api_keys = <<>>
        /\ now = 0
        /\ kpc = [p \in Procs |-> "idle"]
        /\ kreq = [p \in Procs |-> IdleKeyReq]
        /\ kstarted = 0
        /\ applied = NoCalls
        /\ deactivated = {}

TransferArrivesFromAny(p) ==
    \E sender \in users, amount \in TransferAmounts,
       number \in {WalletNumbers[u] : u \in Users} \cup {UnknownWalletNumber} :
        transfer_funds(p, sender, number, amount)

NextTransfer ==
    \/ \E p \in Procs : TransferArrivesFromAny(p) /\ UNCHANGED <<users, keyvars, applied, deactivated>>
    \/ \E p \in Procs : TransferSelectRecipient(p) /\ UNCHANGED <<users, keyvars, applied, deactivated>>
    \/ \E p \in Procs : TransferExecute(p) /\ UNCHANGED <<users, keyvars, applied, deactivated>>
    \/ \E p \in Procs : Respond(p) /\ UNCHANGED <<users, keyvars, applied, deactivated>>

SpecTransfer == InitTransfer /\ [][NextTransfer]_vars

WalletsNumbered(n) == {w \in DOMAIN wallets : wallets[w].wallet_number = n}

\* C35: transfer_funds answers with the error of the first check that fails, in
\* the order sender wallet exists, recipient wallet exists, the two differ,
\* sender wallet active, recipient wallet active, balance covers the amount;
\* only a transfer that passes all of them reaches the try block, so none with
\* an inactive wallet does, whatever the balance; a refused transfer changes
\* no wallet and no transaction.
C35_TransferCheckOrder ==
    [][\A p \in Procs :
          /\ (pc[p] = "idle" /\ Moves(p) /\ req'[p].op = "transfer")
               => /\ wallets' = wallets /\ transactions' = transactions
                  /\ IF WalletsOf(req'[p].wallet) = {}
                     THEN pc'[p] = "done" /\ req'[p].result = "sender_wallet_not_found"
                     ELSE /\ pc'[p] = "tf_select_recipient"
                          /\ \E w \in WalletsOf(req'[p].wallet) :
                               /\ req'[p].active = wallets[w].is_active
                               /\ req'[p].balance = wallets[w].balance
          /\ (pc[p] = "tf_select_recipient" /\ Moves(p))
               => LET r == req[p]
                      found == WalletsNumbered(r.wallet_number)
                      expected ==
                          IF found = {} THEN "recipient_wallet_not_found"
                          ELSE IF \E w \in found : wallets[w].id = r.wallet
                               THEN "self_transfer"
                          ELSE IF ~r.active THEN "sender_wallet_inactive"
                          ELSE IF \E w \in found : ~wallets[w].is_active
                               THEN "recipient_wallet_inactive"
                          ELSE IF r.balance < r.amount THEN "insufficient_balance"
                          ELSE "ok"
                  IN  /\ wallets' = wallets /\ transactions' = transactions
                      /\ IF expected = "ok" THEN pc'[p] = "tf_execute"
                         ELSE pc'[p] = "done" /\ req'[p].result = expected
          /\ pc'[p] = "tf_execute"
               => /\ req'[p].active
                  /\ wallets[req'[p].recipient].is_active]_vars

\* two refused transfers: one from an inactive wallet without the balance to an
\* inactive wallet, answered with the sender's inactivity; one from an active
\* wallet holding the amount to an inactive wallet, answered with the
\* recipient's inactivity
C35_Witness ==
    \E p, q \in Procs : \E s, t \in Users :
        /\ s # t /\ ~wallets[s].is_active /\ wallets[t].is_active
        /\ wallets[s].balance = 0 /\ wallets[t].balance = 2500
        /\ pc[p] = "done" /\ req[p].op = "transfer" /\ req[p].wallet = s
        /\ req[p].wallet_number = wallets[t].wallet_number /\ req[p].amount = 2500
        /\ req[p].result = "sender_wallet_inactive"
        /\ pc[q] = "done" /\ req[q].op = "transfer" /\ req[q].wallet = t
        /\ req[q].wallet_number = wallets[s].wallet_number /\ req[q].amount = 2500
        /\ req[q].result = "recipient_wallet_inactive"

\* ------------------------------------------------------------ conservation
RECURSIVE TotalBalance(_)
TotalBalance(ws) ==
    IF ws = {} THEN 0
    ELSE LET w == CHOOSE x \in ws : TRUE
         IN  wallets[w].balance + TotalBalance(ws \ {w})

RECURSIVE TotalDeposited(_)
TotalDeposited(n) ==
    IF n = 0 THEN 0
    ELSE TotalDeposited(n - 1)
         + IF /\ transactions[n].type = DEPOSIT /\ transactions[n].reference # NoRef
              /\ transactions[n].status = SUCCESS
           THEN transactions[n].amount ELSE 0

\* C36: in every reachable state the balances of all wallets add up to the
\* amounts of the deposit transactions that carry a reference and are success.
C36_MoneyConserved ==
    TotalBalance(DOMAIN wallets) = TotalDeposited(Len(transactions))

\* ------------------------------------------------------------ processor status
\* C37: a notification or verification that reports the recorded amount with a
\* processor status that is neither success nor failed (a payment abandoned or
\* still going on) changes no step of the way the status of its transaction,
\* which stays pending, nor any balance.
C37_UndecidedStaysPending ==
    [][\A p \in Procs :
          ( /\ Moves(p) /\ req[p].op \in ReconcileOps
            /\ req[p].paystack_status \notin {"none", "success", "failed"}
            /\ ~req[p].mismatch
            /\ transactions[req[p].tx].status = PENDING )
          => /\ transactions'[req[p].tx].status = PENDING
             /\ wallets' = wallets]_vars

\* ------------------------------------------------------------ rollover of a revoked key
\* C38: a rollover asked by the owner on a key that is already revoked, by a
\* revocation or by an earlier rollover, is refused at once and writes no key.
C38_RevokedKeyNotRolledOver ==
    [][\A p \in Procs :
          ( /\ kpc[p] = "idle" /\ KeyMoves(p) /\ kreq'[p].op = "rollover"
            /\ kreq'[p].key \in DOMAIN api_keys
            /\ api_keys[kreq'[p].key].user_id = kreq'[p].user
            /\ api_keys[kreq'[p].key].is_revoked )
          => /\ kpc'[p] = "done" /\ kreq'[p].result # "rolled_over"
             /\ api_keys' = api_keys]_vars

\* ------------------------------------------------------------ POST /keys/create, any expiry
\* The validator of the request schema: the string upper-cased when it has a
\* unit letter after something int() accepts, ok FALSE where it raises.
validate_expiry(v) ==
    LET s == [i \in DOMAIN v |-> upper(v[i])]
    IN  IF Len(s) < 2 THEN [ok |-> FALSE, v |-> s]
        ELSE IF s[Len(s)] \notin {"H", "D", "M", "Y"} THEN [ok |-> FALSE, v |-> s]
        ELSE IF ~int(SubSeq(s, 1, Len(s) - 1)).ok THEN [ok |-> FALSE, v |-> s]
        ELSE [ok |-> TRUE, v |-> s]

RequestedExpiries == { <<"1", "h">>, <<"0", "H">>, <<"-", "1", "D">>, <<"1", "W">>, <<"H">> }

\* The endpoint: the body is validated, then the service is called.
create_api_key_endpoint(p, user, name, permissions, expiry) ==
    LET request == validate_expiry(expiry)
        r == [op |-> "create", user |-> user, key |-> NoKey, plain |-> UnknownApiKey,
              name |-> name, permissions |-> permissions, expiry |-> expiry]
    IN  IF request.ok THEN create_api_key(p, user, name, permissions, request.v)
        ELSE /\ kpc[p] = "idle"
             /\ StartKeyRequest
             /\ UNCHANGED <<api_keys, now>>
             /\ KeyFinish(p, r, "validation_error")

CreateRequestArrives(p) ==
    \E user \in KeyCreators, name \in KeyNames, permissions \in {{"read"}},
       expiry \in RequestedExpiries :
        create_api_key_endpoint(p, user, name, permissions, expiry)

NextExpiry ==
    \/ \E p \in Procs : CreateRequestArrives(p) /\ UNCHANGED <<ledgervars, applied, deactivated>>
    \/ \E p \in Procs : CreateCommit(p) /\ UNCHANGED <<ledgervars, applied, deactivated>>
    \/ \E p \in Procs : KeyRespond(p) /\ UNCHANGED <<ledgervars, applied, deactivated>>
    \/ Tick /\ UNCHANGED <<ledgervars, applied, deactivated>>

SpecExpiry == Init /\ [][NextExpiry]_vars

\* C39: every key issued expires strictly after the moment it is issued,
\* whatever expiry string the request was accepted with.
C39_ExpiryAfterCreation ==
    [][\A i \in DOMAIN api_keys' \ DOMAIN api_keys :
          api_keys'[i].expires_at > now]_vars

\* ------------------------------------------------------------ keys of inactive users
\* users.is_active is a column no request of this service writes; the users in
\* deactivated have it False.
InitInactive ==
    \E inactive \in SUBSET KeyCreators :
        /\ wallets = [u \in Users |->
                        [id |-> u, user_id |-> u, wallet_number |-> WalletNumbers[u],
                         balance |-> 0, is_active |-> TRUE]]
        /\ transactions = <<>>
        /\ pc = [p \in Procs |-> "idle"]
        /\ req = [p \in Procs |-> IdleReq]
        /\ credits = [r \in Refs |-> 0]
        /\ started = 0
        /\ users = Users
        /\ api_keys = [i \in 1..SeededKeys |-> SeededKey(i)]
        /\ now = 0
        /\ kpc = [p \in Procs |-> "idle"]
        /\ kreq = [p \in Procs |-> IdleKeyReq]
        /\ kstarted = 0
        /\ applied = NoCalls
        /\ deactivated = inactive

NextInactive ==
    \/ \E p \in Procs : GateArrives(p) /\ UNCHANGED <<ledgervars, applied, deactivated>>
    \/ \E p \in Procs : GateStamp(p) /\ UNCHANGED <<ledgervars, applied, deactivated>>
    \/ \E p \in Procs : KeyRespond(p) /\ UNCHANGED <<ledgervars, applied, deactivated>>
    \/ Tick /\ UNCHANGED <<ledgervars, applied, deactivated>>

SpecInactive == InitInactive /\ [][NextInactive]_vars

\* C40: a request under an acceptable key whose owner is inactive ends as
\* unauthenticated, and the key's last_used_at is what it was before the request.
C40_InactiveOwnerKeyRejected ==
    [][\A p \in Procs :
          ( /\ kpc[p] = "gk_stamp" /\ KeyMoves(p)
            /\ api_keys[kreq[p].key].user_id \in deactivated )
          => /\ kpc'[p] = "done" /\ kreq'[p].result = "unauthenticated"
             /\ api_keys'[kreq[p].key].last_used_at
                  = api_keys[kreq[p].key].last_used_at]_vars

====
